---- MODULE Spec2Model ----
(***************************************************************************)
(* Model of the daily-wins tracker (Django): the Entry and Category        *)
(* tables with their storage constraints (tracker/models.py), the forms    *)
(* that validate submissions (tracker/forms.py) and the views that map a   *)
(* request of the logged-in user to reads and writes (tracker/views.py).   *)
(*                                                                         *)
(* Texts are tuples of one-character strings, so that strip(), lower() and *)
(* len() are computed.  An optional value is <<>> (None / NULL) or <<v>>.  *)
(* Dates are proleptic Gregorian ordinals, as date.toordinal() gives.      *)
(***************************************************************************)
EXTENDS Integers, Sequences, FiniteSets, Bags, TLC

VARIABLES entries, categories, sticky_notes, nextEntryId, nextCategoryId, nextNoteId,
          today, pending, response

vars ==
    <<entries, categories, sticky_notes, nextEntryId, nextCategoryId, nextNoteId, today,
      pending, response>>

----------------------------------------------------------------------------
(* Bounds of the model.                                                    *)

\* Number of Entry rows ever inserted (the auto-increment primary key).
MaxEntries == 2

\* Number of Category rows ever inserted.
MaxCategories == 2

\* Number of Entry rows ever inserted in the specification of the attachments.
MaxAttachedEntries == 1

\* Largest |week| query parameter of the ordinary dashboard requests.
MaxWeekOffset == 1

\* Number of StickyNote rows ever inserted.
MaxNotes == 3

\* Number of StickyNote rows ever inserted in the AJAX specification.
MaxAjaxNotes == 1

\* the requests that may be between their check and their write at once
MaxRequests == 2

\* Number of rows of each table ever inserted by the specification of the deletions.
MaxDeletable == 1

----------------------------------------------------------------------------
(* Optional values and texts.                                              *)

None == <<>>

Some(v) == <<v>>

IsSpace(c) == c \in {" ", "\t", "\n"}

RECURSIVE LStrip(_)
LStrip(s) == IF s # <<>> /\ IsSpace(Head(s)) THEN LStrip(Tail(s)) ELSE s

RECURSIVE RStrip(_)
RStrip(s) ==
    IF s # <<>> /\ IsSpace(s[Len(s)]) THEN RStrip(SubSeq(s, 1, Len(s) - 1)) ELSE s

\* str.strip()
Strip(s) == RStrip(LStrip(s))

LowerChar(c) ==
    CASE c = "W" -> "w"
      [] c = "H" -> "h"
      [] c = "O" -> "o"
      [] c = "G" -> "g"
      [] OTHER -> c

\* Lower('name') of the functional constraint, name__iexact of the form
Lower(s) == [i \in 1..Len(s) |-> LowerChar(s[i])]

----------------------------------------------------------------------------
(* Dates: datetime.date as its proleptic Gregorian ordinal.                *)

IsLeap(y) == (y % 4 = 0) /\ ((y % 100 # 0) \/ (y % 400 = 0))

DaysInMonth(y, m) ==
    IF m = 2 THEN (IF IsLeap(y) THEN 29 ELSE 28)
    ELSE IF m \in {4, 6, 9, 11} THEN 30 ELSE 31

DaysBeforeYear(y) ==
    (y - 1) * 365 + ((y - 1) \div 4) - ((y - 1) \div 100) + ((y - 1) \div 400)

RECURSIVE DaysBeforeMonth(_, _)
DaysBeforeMonth(y, m) ==
    IF m = 1 THEN 0 ELSE DaysBeforeMonth(y, m - 1) + DaysInMonth(y, m - 1)

\* date(y, m, d).toordinal()
Ordinal(y, m, d) == DaysBeforeYear(y) + DaysBeforeMonth(y, m) + d

\* date.min and date.max
MinOrdinal == Ordinal(1, 1, 1)

MaxOrdinal == Ordinal(9999, 12, 31)

\* date.weekday(): Monday = 0 ... Sunday = 6
Weekday(d) == (d + 6) % 7

\* A date string "Y-m-d" is the triple <<Y, m, d>>; the empty string is <<>>.
\* datetime.strptime(s, '%Y-%m-%d') raises ValueError unless the triple names a day.
ValidDateString(s) ==
    /\ Len(s) = 3
    /\ s[1] \in 1..9999
    /\ s[2] \in 1..12
    /\ s[3] \in 1..DaysInMonth(s[1], s[2])

\* datetime.strptime(s, '%Y-%m-%d').date()
ParseDate(s) == Ordinal(s[1], s[2], s[3])

----------------------------------------------------------------------------
(* The storage layer: tables keyed by primary key, and their constraints.  *)

Users == {"u1", "u2"}

\* Entry.title is at most 200 characters, Category.name at most 100; the texts
\* of this model are far shorter, and the limits are left out.

\* the constraint with the title among its fields
unique_entry_per_user_per_day_and_title(tbl, pk, row) ==
    \A j \in DOMAIN tbl \ {pk} :
        ~(/\ tbl[j].user = row.user
          /\ row.entry_date # None
          /\ tbl[j].entry_date = row.entry_date
          /\ tbl[j].title = row.title)

\* UniqueConstraint(fields=['user', 'entry_date']); NULL dates never collide
unique_entry_per_user_per_day(tbl, pk, row) ==
    \A j \in DOMAIN tbl \ {pk} :
        ~(/\ tbl[j].user = row.user
          /\ row.entry_date # None
          /\ tbl[j].entry_date = row.entry_date)

\* the check with its list one value too long
mood_rating_valid_choice_to_11(row) ==
    row.mood_rating = None \/ row.mood_rating[1] \in 1..11

\* CheckConstraint(mood_rating IS NULL OR mood_rating IN (1..10))
mood_rating_valid_choice(row) ==
    row.mood_rating = None \/ row.mood_rating[1] \in 1..10

\* the constraint on the name as written
unique_category_name_per_user_case_sensitive(tbl, pk, row) ==
    \A j \in DOMAIN tbl \ {pk} : ~(tbl[j].user = row.user /\ tbl[j].name = row.name)

\* UniqueConstraint(Lower('name'), 'user')
unique_category_name_per_user(tbl, pk, row) ==
    \A j \in DOMAIN tbl \ {pk} :
        ~(tbl[j].user = row.user /\ Lower(tbl[j].name) = Lower(row.name))

\* Entry.save(): the INSERT or UPDATE succeeds unless a constraint is violated
\* (django.db.IntegrityError)
Entry_save_ok(tbl, pk, row) ==
    unique_entry_per_user_per_day(tbl, pk, row) /\ mood_rating_valid_choice(row)

Category_save_ok(tbl, pk, row) == unique_category_name_per_user(tbl, pk, row)

\* Writing row pk of a table
Put(tbl, pk, row) == [j \in DOMAIN tbl \cup {pk} |-> IF j = pk THEN row ELSE tbl[j]]

\* Deleting row pk of a table
Drop(tbl, pk) == [j \in DOMAIN tbl \ {pk} |-> tbl[j]]

\* the receiver without the comparison to the entry's owner
ensure_same_user_for_categories_mixed_only(cats, instance_user, pk_set) ==
    LET owners == {cats[c].user : c \in pk_set \cap DOMAIN cats}
    IN  ~(pk_set # {} /\ Cardinality(owners) > 1)

\* the m2m_changed receiver: pre_add with the keys to be added
ensure_same_user_for_categories(cats, instance_user, pk_set) ==
    LET owners == {cats[c].user : c \in pk_set \cap DOMAIN cats}
    IN  ~(pk_set # {} /\ (Cardinality(owners) > 1
                          \/ (owners # {} /\ (CHOOSE o \in owners : TRUE) # instance_user)))

\* ManyRelatedManager.set(): the keys not yet attached go through pre_add; when the
\* receiver raises, the enclosing transaction keeps the old set.
Entry_categories_set(cats, row, pk_set) ==
    LET added == pk_set \ row.categories
    IN  IF ensure_same_user_for_categories(cats, row.user, added)
        THEN [ok |-> TRUE, categories |-> pk_set]
        ELSE [ok |-> FALSE, categories |-> row.categories]

\* Entry(): the field defaults of a row not yet saved
NewEntry ==
    [user |-> None, entry_date |-> None, title |-> <<>>, content |-> <<>>,
     mood_rating |-> None, gratitude_text |-> <<>>, categories |-> {}]

----------------------------------------------------------------------------
(* Forms.  A submission is a record of raw field values: texts, a date     *)
(* string, a mood choice (<<>> for the empty choice) and a set of keys.    *)

TitleMinLen == 3

ContentMinLen == 5

GratitudeMinLen == 5

CategoryNameMinLen == 2

\* the fields whose own validation fails (forms.DateField, TypedChoiceField over
\* MoodChoice.choices, ModelMultipleChoiceField over the user's categories)
EntryForm_field_errors(cats, user, data) ==
    {f \in {"entry_date"} : data.entry_date # <<>> /\ ~ValidDateString(data.entry_date)}
    \cup {f \in {"mood_rating"} :
            data.mood_rating # <<>> /\ data.mood_rating[1] \notin 1..10}
    \cup {f \in {"categories"} :
            \E c \in data.categories : ~(c \in DOMAIN cats /\ cats[c].user = Some(user))}

\* cleaned_data: texts stripped by forms.CharField, '' read as None for the date
\* and the mood; a field in error has no cleaned value
EntryForm_cleaned_data(cats, user, data) ==
    LET bad == EntryForm_field_errors(cats, user, data)
    IN  [entry_date |-> IF data.entry_date = <<>> \/ "entry_date" \in bad
                        THEN None ELSE Some(ParseDate(data.entry_date)),
         title |-> Strip(data.title),
         content |-> Strip(data.content),
         mood_rating |-> IF "mood_rating" \in bad THEN None ELSE data.mood_rating,
         gratitude_text |-> Strip(data.gratitude_text),
         categories |-> IF "categories" \in bad THEN {} ELSE data.categories]

\* a clean() that looks for text only and takes a rated entry without text for empty
EntryForm_clean_mood_ignored(cleaned) ==
    LET title == cleaned.title
        content == cleaned.content
        gratitude_text == cleaned.gratitude_text
    IN  IF Strip(title) = <<>> /\ Strip(content) = <<>> /\ Strip(gratitude_text) = <<>>
        THEN "empty"
        ELSE IF title # <<>> /\ Len(Strip(title)) < TitleMinLen
        THEN "title"
        ELSE IF content # <<>> /\ Len(Strip(content)) < ContentMinLen
        THEN "content"
        ELSE IF gratitude_text # <<>> /\ Len(Strip(gratitude_text)) < GratitudeMinLen
        THEN "gratitude_text"
        ELSE "ok"

\* a clean() that measures the fields that are empty too
EntryForm_clean_length_of_empty(cleaned) ==
    LET title == cleaned.title
        content == cleaned.content
        gratitude_text == cleaned.gratitude_text
        mood_rating == cleaned.mood_rating
        mood_empty == mood_rating = None \/ mood_rating[1] = 0
    IN  IF /\ Strip(title) = <<>>
           /\ Strip(content) = <<>>
           /\ Strip(gratitude_text) = <<>>
           /\ mood_empty
        THEN "empty"
        ELSE IF Len(Strip(title)) < TitleMinLen
        THEN "title"
        ELSE IF Len(Strip(content)) < ContentMinLen
        THEN "content"
        ELSE IF Len(Strip(gratitude_text)) < GratitudeMinLen
        THEN "gratitude_text"
        ELSE "ok"

\* EntryForm.clean(): "ok", or the error it raises
EntryForm_clean(cleaned) ==
    LET title == cleaned.title
        content == cleaned.content
        gratitude_text == cleaned.gratitude_text
        title_empty == title = <<>> \/ Strip(title) = <<>>
        content_empty == content = <<>> \/ Strip(content) = <<>>
        gratitude_empty == gratitude_text = <<>> \/ Strip(gratitude_text) = <<>>
        mood_rating == cleaned.mood_rating
        mood_empty == mood_rating = None \/ mood_rating[1] = 0
    IN  IF title_empty /\ content_empty /\ gratitude_empty /\ mood_empty
        THEN "empty"
        ELSE IF title # <<>> /\ Len(Strip(title)) < TitleMinLen
        THEN "title"
        ELSE IF content # <<>> /\ Len(Strip(content)) < ContentMinLen
        THEN "content"
        ELSE IF gratitude_text # <<>> /\ Len(Strip(gratitude_text)) < GratitudeMinLen
        THEN "gratitude_text"
        ELSE "ok"

\* ModelForm._get_validation_exclusions(): the model fields that are no form field
EntryForm_exclude == {"id", "user", "date_created", "date_modified", "is_private"}

QuickEntryForm_exclude ==
    {"id", "user", "entry_date", "gratitude_text", "date_created", "date_modified",
     "is_private"}

CategoryForm_exclude == {"id", "user", "date_created"}

\* Model.validate_constraints(exclude): a constraint naming an excluded field is
\* skipped (UniqueConstraint.validate, CheckConstraint.validate)
Entry_validate_constraints(tbl, pk, row, exclude) ==
    /\ ({"user", "entry_date"} \cap exclude = {}
            => unique_entry_per_user_per_day(tbl, pk, row))
    /\ ("mood_rating" \notin exclude => mood_rating_valid_choice(row))

\* construct_instance(): the cleaned values written onto the form's instance
EntryForm_construct_instance(instance, cleaned) ==
    [instance EXCEPT !.entry_date = cleaned.entry_date,
                     !.title = cleaned.title,
                     !.content = cleaned.content,
                     !.mood_rating = cleaned.mood_rating,
                     !.gratitude_text = cleaned.gratitude_text]

\* EntryForm.is_valid(): field validation, clean(), then _post_clean()
EntryForm_is_valid(tbl, cats, user, pk, instance, data) ==
    LET cleaned == EntryForm_cleaned_data(cats, user, data)
    IN  /\ EntryForm_field_errors(cats, user, data) = {}
        /\ EntryForm_clean(cleaned) = "ok"
        /\ Entry_validate_constraints(
               tbl, pk, EntryForm_construct_instance(instance, cleaned), EntryForm_exclude)

\* form.errors of an EntryForm: the fields in error, "__all__" for the error of
\* clean() that names no field
EntryForm_errors(cats, user, data) ==
    LET raised == EntryForm_clean(EntryForm_cleaned_data(cats, user, data))
    IN  EntryForm_field_errors(cats, user, data)
        \cup (IF raised = "ok" THEN {} ELSE IF raised = "empty" THEN {"__all__"}
              ELSE {raised})

\* a save that never sets the owner
EntryForm_instance_no_owner(cats, user, instance, data) ==
    EntryForm_construct_instance(instance, EntryForm_cleaned_data(cats, user, data))

\* EntryForm.save(commit=False): the instance with its owner set when it has none
EntryForm_instance(cats, user, instance, data) ==
    LET row == EntryForm_construct_instance(
                   instance, EntryForm_cleaned_data(cats, user, data))
    IN  IF row.user = None THEN [row EXCEPT !.user = Some(user)] ELSE row

\* QuickEntryForm.is_valid(): title and content may be blank, the mood is a choice
QuickEntryForm_is_valid(tbl, pk, instance, data) ==
    /\ ~(data.mood_rating # <<>> /\ data.mood_rating[1] \notin 1..10)
    /\ Entry_validate_constraints(
           tbl, pk,
           [instance EXCEPT !.title = Strip(data.title), !.content = Strip(data.content),
                            !.mood_rating = data.mood_rating],
           QuickEntryForm_exclude)

\* QuickEntryForm.save(commit=False); entry_date is the keyword the view passed
QuickEntryForm_instance(user, entry_date, instance, data) ==
    LET row == [instance EXCEPT !.title = Strip(data.title),
                                !.content = Strip(data.content),
                                !.mood_rating = data.mood_rating]
        owned == IF row.user = None THEN [row EXCEPT !.user = Some(user)] ELSE row
    IN  IF entry_date # None THEN [owned EXCEPT !.entry_date = entry_date] ELSE owned

----------------------------------------------------------------------------
(* Views.  Each action is one request of the logged-in user u; response    *)
(* records what was answered: the HTTP status, whether a validation        *)
(* message (form errors, messages.error, a JSON error) is reported, and the *)
(* entries and categories whose fields the answer carries.                 *)

Resp(op, u, method, pk, status, errors, shown) ==
    [op |-> op, user |-> u, method |-> method, pk |-> pk, status |-> status,
     errors |-> errors, shown |-> shown, cats |-> {}, form_errors |-> {},
     error |-> ""]

\* an answer that carries categories
RespCats(op, u, method, pk, status, errors, cats) ==
    [Resp(op, u, method, pk, status, errors, {}) EXCEPT !.cats = cats]

\* the answer to a POST whose form is invalid: the form's errors are rendered
InvalidEntryForm(op, u, pk, status, shown, data) ==
    [Resp(op, u, "POST", pk, status, TRUE, shown)
        EXCEPT !.form_errors = EntryForm_errors(categories, u, data)]

Methods == {"GET", "POST"}

\* the lookup without its owner filter
Entry_found_any_owner(u, pk) == pk \in DOMAIN entries

\* get_object_or_404(Entry, pk=pk, user=request.user)
Entry_found(u, pk) == pk \in DOMAIN entries /\ entries[pk].user = Some(u)

\* entry_detail
entry_detail(u, pk) ==
    /\ response' = IF Entry_found(u, pk)
                   THEN Resp("entry_detail", u, "GET", Some(pk), 200, FALSE, {pk})
                   ELSE Resp("entry_detail", u, "GET", Some(pk), 404, FALSE, {})
    /\ UNCHANGED <<entries, categories, nextEntryId, nextCategoryId, today, pending, sticky_notes, nextNoteId>>

\* entry_list: the type and category filters over the user's entries (the text
\* search and the pages of 10 are left out: every list here fits one page)
entry_list(u, type, category) ==
    LET mine == {e \in DOMAIN entries : entries[e].user = Some(u)}
        typed == IF type = "win" THEN {e \in mine : entries[e].content # <<>>}
                 ELSE IF type = "gratitude"
                 THEN {e \in mine : entries[e].gratitude_text # <<>>}
                 ELSE mine
        shown == IF category = None THEN typed
                 ELSE {e \in typed : category[1] \in entries[e].categories}
    IN  /\ response' = Resp("entry_list", u, "GET", None, 200, FALSE, shown)
        /\ UNCHANGED <<entries, categories, nextEntryId, nextCategoryId, today, pending, sticky_notes, nextNoteId>>

\* form.save() of an EntryForm on table tbl: entry.save(), then save_m2m(), then
\* the view's answer of status okStatus (500: the view raises after the save)
EntryForm_save(tbl, op, u, pk, row, data, okStatus) ==
    IF Entry_save_ok(tbl, pk, row)
    THEN LET m2m == Entry_categories_set(categories, row, data.categories)
         IN  /\ entries' = Put(tbl, pk, [row EXCEPT !.categories = m2m.categories])
             /\ response' = IF m2m.ok /\ okStatus # 500
                            THEN Resp(op, u, "POST", Some(pk), okStatus, FALSE, {pk})
                            ELSE Resp(op, u, "POST", Some(pk), 500, FALSE, {})
    ELSE /\ entries' = tbl
         /\ response' = Resp(op, u, "POST", Some(pk), 500, FALSE, {})

\* entry_create
entry_create(u, method, data) ==
    /\ IF method = "POST"
       THEN IF EntryForm_is_valid(entries, categories, u, nextEntryId, NewEntry, data)
            THEN /\ nextEntryId <= MaxEntries
                 /\ EntryForm_save(entries, "entry_create", u, nextEntryId,
                                   EntryForm_instance(categories, u, NewEntry, data),
                                   data, 302)
                 /\ nextEntryId' = IF nextEntryId \in DOMAIN entries'
                                   THEN nextEntryId + 1 ELSE nextEntryId
            ELSE /\ response' = InvalidEntryForm("entry_create", u, None, 200, {}, data)
                 /\ UNCHANGED <<entries, nextEntryId>>
       ELSE /\ response' = Resp("entry_create", u, "GET", None, 200, FALSE, {})
            /\ UNCHANGED <<entries, nextEntryId>>
    /\ UNCHANGED <<categories, nextCategoryId, today, pending, sticky_notes, nextNoteId>>

\* an edit that saves the instance the form has filled in when the form is invalid
entry_edit_saves_invalid(u, pk, method, data) ==
    /\ IF ~Entry_found(u, pk)
       THEN /\ response' = Resp("entry_edit", u, method, Some(pk), 404, FALSE, {})
            /\ UNCHANGED entries
       ELSE IF method = "POST"
       THEN IF EntryForm_is_valid(entries, categories, u, pk, entries[pk], data)
            THEN EntryForm_save(entries, "entry_edit", u, pk,
                                EntryForm_instance(categories, u, entries[pk], data),
                                data, 302)
            ELSE /\ response' = InvalidEntryForm("entry_edit", u, Some(pk), 200, {pk},
                                                   data)
                 /\ entries' = Put(entries, pk,
                                   EntryForm_instance(categories, u, entries[pk], data))
       ELSE /\ response' = Resp("entry_edit", u, "GET", Some(pk), 200, FALSE, {pk})
            /\ UNCHANGED entries
    /\ UNCHANGED <<categories, nextEntryId, nextCategoryId, today, pending, sticky_notes, nextNoteId>>

\* entry_edit
entry_edit(u, pk, method, data) ==
    /\ IF ~Entry_found(u, pk)
       THEN /\ response' = Resp("entry_edit", u, method, Some(pk), 404, FALSE, {})
            /\ UNCHANGED entries
       ELSE IF method = "POST"
       THEN IF EntryForm_is_valid(entries, categories, u, pk, entries[pk], data)
            THEN EntryForm_save(entries, "entry_edit", u, pk,
                                EntryForm_instance(categories, u, entries[pk], data),
                                data, 302)
            ELSE /\ response' = InvalidEntryForm("entry_edit", u, Some(pk), 200, {pk},
                                                   data)
                 /\ UNCHANGED entries
       ELSE /\ response' = Resp("entry_edit", u, "GET", Some(pk), 200, FALSE, {pk})
            /\ UNCHANGED entries
    /\ UNCHANGED <<categories, nextEntryId, nextCategoryId, today, pending, sticky_notes, nextNoteId>>

\* a delete that does not look at the method of the request
entry_delete_any_method(u, pk, method) ==
    /\ IF ~Entry_found(u, pk)
       THEN /\ response' = Resp("entry_delete", u, method, Some(pk), 404, FALSE, {})
            /\ UNCHANGED entries
       ELSE /\ entries' = Drop(entries, pk)
            /\ response' = Resp("entry_delete", u, method, Some(pk), 302, FALSE, {})
    /\ UNCHANGED <<categories, nextEntryId, nextCategoryId, today, pending, sticky_notes, nextNoteId>>

\* entry_delete
entry_delete(u, pk, method) ==
    /\ IF ~Entry_found(u, pk)
       THEN /\ response' = Resp("entry_delete", u, method, Some(pk), 404, FALSE, {})
            /\ UNCHANGED entries
       ELSE IF method = "POST"
       THEN /\ entries' = Drop(entries, pk)
            /\ response' = Resp("entry_delete", u, "POST", Some(pk), 302, FALSE, {})
       ELSE /\ response' = Resp("entry_delete", u, "GET", Some(pk), 200, FALSE, {pk})
            /\ UNCHANGED entries
    /\ UNCHANGED <<categories, nextEntryId, nextCategoryId, today, pending, sticky_notes, nextNoteId>>

\* entry_detail_modal: get_or_create the day's entry, then GET or POST.  The
\* answer to a valid POST formats entry.entry_date, which is None when the
\* submitted date was empty: AttributeError after the save
entry_detail_modal(u, method, entry_date, data) ==
    IF ~ValidDateString(entry_date)
    THEN /\ response' = Resp("entry_detail_modal", u, method, None, 400, TRUE, {})
         /\ UNCHANGED <<entries, categories, nextEntryId, nextCategoryId, today, pending, sticky_notes, nextNoteId>>
    ELSE LET target_date == Some(ParseDate(entry_date))
             found == {e \in DOMAIN entries :
                         entries[e].user = Some(u) /\ entries[e].entry_date = target_date}
             created == found = {}
             pk == IF created THEN nextEntryId ELSE CHOOSE e \in found : TRUE
             blank == [NewEntry EXCEPT !.user = Some(u), !.entry_date = target_date]
             tbl == IF created THEN Put(entries, pk, blank) ELSE entries
         IN  /\ created => nextEntryId <= MaxEntries
             /\ nextEntryId' = IF created THEN nextEntryId + 1 ELSE nextEntryId
             /\ IF method = "POST"
                THEN IF EntryForm_is_valid(tbl, categories, u, pk, tbl[pk], data)
                     THEN LET row == EntryForm_instance(categories, u, tbl[pk], data)
                          IN  EntryForm_save(tbl, "entry_detail_modal", u, pk, row, data,
                                             IF row.entry_date = None THEN 500 ELSE 200)
                     ELSE /\ entries' = tbl
                          /\ response' = InvalidEntryForm("entry_detail_modal", u,
                                                           Some(pk), 400, {}, data)
                ELSE /\ entries' = tbl
                     /\ response' = Resp("entry_detail_modal", u, "GET", Some(pk),
                                         200, FALSE, {pk})
             /\ UNCHANGED <<categories, nextCategoryId, today, pending, sticky_notes, nextNoteId>>

\* the body shared by quick_add_win and quick_add_gratitude; the views pass no
\* entry_date to the form.  On a GET the name form is unbound when it is read.
\* With Accept: application/json the success answer is the same fields as JSON
\* (status 200); the redirect is the answer modelled.
quick_add(op, u, method, data) ==
    /\ IF method = "POST"
       THEN IF QuickEntryForm_is_valid(entries, nextEntryId, NewEntry, data)
            THEN LET row == QuickEntryForm_instance(u, None, NewEntry, data)
                 IN  /\ nextEntryId <= MaxEntries
                     /\ IF Entry_save_ok(entries, nextEntryId, row)
                        THEN /\ entries' = Put(entries, nextEntryId, row)
                             /\ nextEntryId' = nextEntryId + 1
                             /\ response' = Resp(op, u, "POST", Some(nextEntryId),
                                                 302, FALSE, {nextEntryId})
                        ELSE /\ response' = Resp(op, u, "POST", None, 500, FALSE, {})
                             /\ UNCHANGED <<entries, nextEntryId>>
            ELSE /\ response' = Resp(op, u, "POST", None, 302, TRUE, {})
                 /\ UNCHANGED <<entries, nextEntryId>>
       ELSE /\ response' = Resp(op, u, "GET", None, 500, FALSE, {})
            /\ UNCHANGED <<entries, nextEntryId>>
    /\ UNCHANGED <<categories, nextCategoryId, today, pending, sticky_notes, nextNoteId>>

\* quick_add_win
quick_add_win(u, method, data) == quick_add("quick_add_win", u, method, data)

\* quick_add_gratitude
quick_add_gratitude(u, method, data) ==
    quick_add("quick_add_gratitude", u, method, data)

\* Entry.objects.create(user=u, ...): a write that no form has validated; only the
\* table's constraints decide it
Entry_objects_create(u, data) ==
    LET row == [NewEntry EXCEPT !.user = Some(u),
                                !.entry_date = IF data.entry_date = <<>> THEN None
                                               ELSE Some(ParseDate(data.entry_date)),
                                !.title = data.title,
                                !.mood_rating = data.mood_rating]
    IN  /\ nextEntryId <= MaxEntries
        /\ IF Entry_save_ok(entries, nextEntryId, row)
           THEN /\ entries' = Put(entries, nextEntryId, row)
                /\ nextEntryId' = nextEntryId + 1
                /\ response' = Resp("Entry.objects.create", u, "ORM", Some(nextEntryId),
                                    200, FALSE, {})
           ELSE /\ response' = Resp("Entry.objects.create", u, "ORM", None, 500, FALSE, {})
                /\ UNCHANGED <<entries, nextEntryId>>
        /\ UNCHANGED <<categories, nextCategoryId, today, pending, sticky_notes, nextNoteId>>

----------------------------------------------------------------------------
(* Categories: the form and the views.                                     *)

HexDigits ==
    {"0", "1", "2", "3", "4", "5", "6", "7", "8", "9",
     "a", "b", "c", "d", "e", "f", "A", "B", "C", "D", "E", "F"}

\* RegexValidator('^#[0-9A-Fa-f]{6}$')
IsHexColor(c) == Len(c) = 7 /\ c[1] = "#" /\ \A i \in 2..7 : c[i] \in HexDigits

\* '#007bff', the default of Category.color
Blue == <<"#", "0", "0", "7", "b", "f", "f">>

\* Category(): the field defaults of a row not yet saved (the description, free
\* text that nothing reads, is left out)
NewCategory == [user |-> None, name |-> <<>>, color |-> Blue]

\* name and color are required; the model's validators run in _post_clean
CategoryForm_field_errors(data) ==
    {f \in {"name"} : Strip(data.name) = <<>>}
    \cup {f \in {"color"} : ~IsHexColor(Strip(data.color))}

\* a clean_name() that does not exclude the instance being edited
CategoryForm_clean_name_includes_self(cats, user, pk, raw) ==
    LET name == Strip(raw)
        existing == {c \in DOMAIN cats :
                        /\ cats[c].user = Some(user)
                        /\ Lower(cats[c].name) = Lower(name)}
    IN  IF name = <<>> THEN "ok"
        ELSE IF Len(name) < CategoryNameMinLen THEN "short"
        ELSE IF existing # {} THEN "exists"
        ELSE "ok"

\* CategoryForm.clean_name(): "ok", or the error it raises; pk is the key of the
\* instance being edited, None for a new one
CategoryForm_clean_name(cats, user, pk, raw) ==
    LET name == Strip(raw)
        existing == {c \in DOMAIN cats :
                        /\ cats[c].user = Some(user)
                        /\ Lower(cats[c].name) = Lower(name)
                        /\ Some(c) # pk}
    IN  IF name = <<>> THEN "ok"
        ELSE IF Len(name) < CategoryNameMinLen THEN "short"
        ELSE IF existing # {} THEN "exists"
        ELSE "ok"

\* CategoryForm.is_valid(); the functional unique constraint names the excluded
\* field user and is skipped by validate_constraints
CategoryForm_is_valid(cats, user, pk, data) ==
    /\ CategoryForm_field_errors(data) = {}
    /\ CategoryForm_clean_name(cats, user, pk, data.name) = "ok"

\* CategoryForm.save(commit=False)
CategoryForm_instance(user, instance, data) ==
    LET row == [instance EXCEPT !.name = Strip(data.name), !.color = Strip(data.color)]
    IN  IF row.user = None THEN [row EXCEPT !.user = Some(user)] ELSE row

\* the lookup of a category without its owner filter
Category_found_any_owner(u, pk) == pk \in DOMAIN categories

\* get_object_or_404(Category, pk=pk, user=request.user)
Category_found(u, pk) == pk \in DOMAIN categories /\ categories[pk].user = Some(u)

\* a delete that cascades to the entries the category is attached to
Category_delete_with_entries(pk) ==
    /\ categories' = Drop(categories, pk)
    /\ entries' = [e \in {x \in DOMAIN entries : pk \notin entries[x].categories} |->
                     entries[e]]

\* Category.delete(): the row and its rows of the many-to-many table
Category_delete(pk) ==
    /\ categories' = Drop(categories, pk)
    /\ entries' = [e \in DOMAIN entries |->
                     [entries[e] EXCEPT !.categories = @ \ {pk}]]

\* category_list
category_list(u) ==
    /\ response' = RespCats("category_list", u, "GET", None, 200, FALSE,
                            {c \in DOMAIN categories : categories[c].user = Some(u)})
    /\ UNCHANGED <<entries, categories, nextEntryId, nextCategoryId, today, pending, sticky_notes, nextNoteId>>

\* category_ajax_list
category_ajax_list(u) ==
    /\ response' = RespCats("category_ajax_list", u, "GET", None, 200, FALSE,
                            {c \in DOMAIN categories : categories[c].user = Some(u)})
    /\ UNCHANGED <<entries, categories, nextEntryId, nextCategoryId, today, pending, sticky_notes, nextNoteId>>

\* form.save() of a CategoryForm for a new category
CategoryForm_create(op, u, data) ==
    LET row == CategoryForm_instance(u, NewCategory, data)
    IN  /\ nextCategoryId <= MaxCategories
        /\ IF Category_save_ok(categories, nextCategoryId, row)
           THEN /\ categories' = Put(categories, nextCategoryId, row)
                /\ nextCategoryId' = nextCategoryId + 1
                /\ response' = RespCats(op, u, "POST", Some(nextCategoryId),
                                        IF op = "category_create" THEN 302 ELSE 200,
                                        FALSE, {nextCategoryId})
           ELSE /\ response' = RespCats(op, u, "POST", None,
                                        IF op = "category_create" THEN 500 ELSE 200,
                                        op # "category_create", {})
                /\ UNCHANGED <<categories, nextCategoryId>>

\* category_create
category_create(u, method, data) ==
    /\ IF method = "POST"
       THEN IF CategoryForm_is_valid(categories, u, None, data)
            THEN CategoryForm_create("category_create", u, data)
            ELSE /\ response' = RespCats("category_create", u, "POST", None, 200, TRUE, {})
                 /\ UNCHANGED <<categories, nextCategoryId>>
       ELSE /\ response' = RespCats("category_create", u, "GET", None, 200, FALSE, {})
            /\ UNCHANGED <<categories, nextCategoryId>>
    /\ UNCHANGED <<entries, nextEntryId, today, pending, sticky_notes, nextNoteId>>

\* category_ajax_create: every outcome is a JSON answer with status 200; an
\* exception of the save is caught and reported as 'Server error'
category_ajax_create(u, method, data) ==
    /\ IF method = "POST"
       THEN IF CategoryForm_is_valid(categories, u, None, data)
            THEN CategoryForm_create("category_ajax_create", u, data)
            ELSE /\ response' = RespCats("category_ajax_create", u, "POST", None,
                                         200, TRUE, {})
                 /\ UNCHANGED <<categories, nextCategoryId>>
       ELSE /\ response' = RespCats("category_ajax_create", u, method, None, 200, TRUE, {})
            /\ UNCHANGED <<categories, nextCategoryId>>
    /\ UNCHANGED <<entries, nextEntryId, today, pending, sticky_notes, nextNoteId>>

\* category_edit
category_edit(u, pk, method, data) ==
    /\ IF ~Category_found(u, pk)
       THEN /\ response' = RespCats("category_edit", u, method, Some(pk), 404, FALSE, {})
            /\ UNCHANGED categories
       ELSE IF method = "POST"
       THEN IF CategoryForm_is_valid(categories, u, Some(pk), data)
            THEN LET row == CategoryForm_instance(u, categories[pk], data)
                 IN  IF Category_save_ok(categories, pk, row)
                     THEN /\ categories' = Put(categories, pk, row)
                          /\ response' = RespCats("category_edit", u, "POST", Some(pk),
                                                  302, FALSE, {pk})
                     ELSE /\ response' = RespCats("category_edit", u, "POST", Some(pk),
                                                  500, FALSE, {})
                          /\ UNCHANGED categories
            ELSE /\ response' = RespCats("category_edit", u, "POST", Some(pk),
                                         200, TRUE, {pk})
                 /\ UNCHANGED categories
       ELSE /\ response' = RespCats("category_edit", u, "GET", Some(pk), 200, FALSE, {pk})
            /\ UNCHANGED categories
    /\ UNCHANGED <<entries, nextEntryId, nextCategoryId, today, pending, sticky_notes, nextNoteId>>

\* category_delete
category_delete(u, pk, method) ==
    /\ IF ~Category_found(u, pk)
       THEN /\ response' = RespCats("category_delete", u, method, Some(pk), 404, FALSE, {})
            /\ UNCHANGED <<entries, categories>>
       ELSE IF method = "POST"
       THEN /\ Category_delete(pk)
            /\ response' = RespCats("category_delete", u, "POST", Some(pk), 302, FALSE, {})
       ELSE /\ response' = RespCats("category_delete", u, "GET", Some(pk), 200, FALSE, {pk})
            /\ UNCHANGED <<entries, categories>>
    /\ UNCHANGED <<nextEntryId, nextCategoryId, today, pending, sticky_notes, nextNoteId>>

\* a delete that does not look at the method of the request
category_ajax_delete_any_method(u, pk, method) ==
    /\ IF Category_found(u, pk)
       THEN /\ Category_delete(pk)
            /\ response' = RespCats("category_ajax_delete", u, method, Some(pk),
                                    200, FALSE, {})
       ELSE /\ response' = RespCats("category_ajax_delete", u, method, Some(pk),
                                    404, FALSE, {})
            /\ UNCHANGED <<entries, categories>>
    /\ UNCHANGED <<nextEntryId, nextCategoryId, today, pending, sticky_notes, nextNoteId>>

\* category_ajax_delete: Http404 of get_object_or_404 is no Category.DoesNotExist
\* and passes the except clause
category_ajax_delete(u, pk, method) ==
    /\ IF method = "DELETE"
       THEN IF Category_found(u, pk)
            THEN /\ Category_delete(pk)
                 /\ response' = RespCats("category_ajax_delete", u, "DELETE", Some(pk),
                                         200, FALSE, {})
            ELSE /\ response' = RespCats("category_ajax_delete", u, "DELETE", Some(pk),
                                         404, FALSE, {})
                 /\ UNCHANGED <<entries, categories>>
       ELSE /\ response' = RespCats("category_ajax_delete", u, method, Some(pk),
                                    200, TRUE, {})
            /\ UNCHANGED <<entries, categories>>
    /\ UNCHANGED <<nextEntryId, nextCategoryId, today, pending, sticky_notes, nextNoteId>>

\* Category.objects.create(user=u, name=...): a write that no form has validated
Category_objects_create(u, data) ==
    LET row == [NewCategory EXCEPT !.user = Some(u), !.name = data.name,
                                   !.color = data.color]
    IN  /\ nextCategoryId <= MaxCategories
        /\ IF Category_save_ok(categories, nextCategoryId, row)
           THEN /\ categories' = Put(categories, nextCategoryId, row)
                /\ nextCategoryId' = nextCategoryId + 1
                /\ response' = RespCats("Category.objects.create", u, "ORM",
                                        Some(nextCategoryId), 200, FALSE, {})
           ELSE /\ response' = RespCats("Category.objects.create", u, "ORM", None,
                                        500, FALSE, {})
                /\ UNCHANGED <<categories, nextCategoryId>>
        /\ UNCHANGED <<entries, nextEntryId, today, pending, sticky_notes, nextNoteId>>

\* entry.categories.add(*pk_set): an attachment that no form has validated; the
\* m2m_changed receiver decides it
Entry_categories_add(e, pk_set) ==
    /\ e \in DOMAIN entries
    /\ pk_set \subseteq DOMAIN categories
    /\ LET added == pk_set \ entries[e].categories
       IN  IF ensure_same_user_for_categories(categories, entries[e].user, added)
           THEN /\ entries' = [entries EXCEPT ![e].categories = @ \cup pk_set]
                /\ response' = Resp("Entry.categories.add", entries[e].user[1], "ORM",
                                    Some(e), 200, FALSE, {})
           ELSE /\ response' = Resp("Entry.categories.add", entries[e].user[1], "ORM",
                                    Some(e), 500, FALSE, {})
                /\ UNCHANGED entries
    /\ UNCHANGED <<categories, nextEntryId, nextCategoryId, today, pending, sticky_notes, nextNoteId>>

----------------------------------------------------------------------------
(* The requests of the entry specification.                                *)

Gym == <<"G", "y", "m">>

\* the day the requests are made
Day1 == <<2024, 6, 12>>

\* no day: June has 30 of them
BadDay == <<2024, 6, 31>>

EntryFields(d, title, mood, cats) ==
    [entry_date |-> d, title |-> title, content |-> <<>>, mood_rating |-> mood,
     gratitude_text |-> <<>>, categories |-> cats]

\* what a GET carries
NoData == EntryFields(<<>>, <<>>, <<>>, {})

\* the submissions to entry_create: a titled and rated entry with or without a
\* date, an empty one, two with a mood out of range and one with a date that is
\* no day of the calendar (FormData and AttachEntryData hold the other rejections)
EntryData ==
    {EntryFields(d, Gym, <<7>>, {}) : d \in {<<>>, Day1}}
    \cup {EntryFields(Day1, <<>>, <<>>, {}),
          EntryFields(Day1, <<>>, <<11>>, {}),
          EntryFields(Day1, <<>>, <<0>>, {}),
          EntryFields(BadDay, Gym, <<>>, {})}

\* the submissions to entry_edit and entry_detail_modal
EditData ==
    {EntryFields(d, Gym, <<7>>, {}) : d \in {<<>>, Day1}}
    \cup {EntryFields(Day1, <<>>, <<>>, {}), EntryFields(Day1, <<>>, <<11>>, {})}

QuickFields(title, mood) == [title |-> title, content |-> <<>>, mood_rating |-> mood]

NoQuickData == QuickFields(<<>>, <<>>)

QuickData == {QuickFields(<<>>, <<>>), QuickFields(Gym, <<7>>), QuickFields(Gym, <<11>>)}

\* the rows written past the forms
RawData == {EntryFields(Day1, Gym, <<7>>, {}), EntryFields(Day1, Gym, <<11>>, {})}

DataOf(method, set, none) == IF method = "POST" THEN set ELSE {none}

EntryIds == 1..MaxEntries

NoResponse == Resp("none", "u1", "GET", None, 200, FALSE, {})

Init ==
    /\ entries = <<>>
    /\ categories = <<>>
    /\ nextEntryId = 1
    /\ nextCategoryId = 1
    /\ sticky_notes = <<>>
    /\ nextNoteId = 1
    /\ pending = EmptyBag
    /\ today = ParseDate(Day1)
    /\ response = NoResponse

Next ==
    \/ \E u \in Users, pk \in EntryIds : entry_detail(u, pk)
    \/ \E u \in Users, type \in {"", "win", "gratitude"} : entry_list(u, type, None)
    \/ \E u \in Users, m \in Methods : \E data \in DataOf(m, EntryData, NoData) :
           entry_create(u, m, data)
    \/ \E u \in Users, pk \in EntryIds, m \in Methods :
           \E data \in DataOf(m, EditData, NoData) : entry_edit(u, pk, m, data)
    \/ \E u \in Users, pk \in EntryIds, m \in Methods : entry_delete(u, pk, m)
    \/ \E u \in Users, m \in Methods, d \in {Day1, BadDay} :
           \E data \in DataOf(m, EditData, NoData) : entry_detail_modal(u, m, d, data)
    \/ \E u \in Users, m \in Methods : \E data \in DataOf(m, QuickData, NoQuickData) :
           quick_add_win(u, m, data)
    \/ \E u \in Users, m \in Methods : \E data \in DataOf(m, QuickData, NoQuickData) :
           quick_add_gratitude(u, m, data)
    \/ \E u \in Users, data \in RawData : Entry_objects_create(u, data)

Spec == Init /\ [][Next]_vars

----------------------------------------------------------------------------
(* The requests of the category specification.                             *)

Work == <<"W", "o", "r", "k">>

Home == <<"H", "o", "m", "e">>

CategoryFields(name, color) == [name |-> name, color |-> color]

NoCategoryData == CategoryFields(<<>>, Blue)

\* the submissions of CategoryForm: two names that differ by case only, the first
\* also with a space to strip, a third name, and one submission for each way of
\* being rejected
CategoryData ==
    {CategoryFields(n, Blue) : n \in {Work, Lower(Work), <<" ">> \o Work, Home}}
    \cup {CategoryFields(<<"W">>, Blue),
          CategoryFields(<<" ">>, Blue),
          CategoryFields(Home, <<"b", "l", "u", "e">>)}

\* the row written past the form
RawCategoryData == {CategoryFields(Lower(Work), Blue)}

CategoryIds == 1..MaxCategories

CatNext ==
    \/ \E u \in Users : category_list(u)
    \/ \E u \in Users : category_ajax_list(u)
    \/ \E u \in Users, m \in Methods :
           \E data \in DataOf(m, CategoryData, NoCategoryData) : category_create(u, m, data)
    \/ \E u \in Users, m \in Methods :
           \E data \in DataOf(m, CategoryData, NoCategoryData) :
               category_ajax_create(u, m, data)
    \/ \E u \in Users, pk \in CategoryIds, m \in Methods :
           \E data \in DataOf(m, CategoryData, NoCategoryData) :
               category_edit(u, pk, m, data)
    \/ \E u \in Users, pk \in CategoryIds, m \in Methods : category_delete(u, pk, m)
    \/ \E u \in Users, pk \in CategoryIds, m \in {"GET", "DELETE"} :
           category_ajax_delete(u, pk, m)
    \/ \E u \in Users, data \in RawCategoryData : Category_objects_create(u, data)

CatSpec == Init /\ [][CatNext]_vars

----------------------------------------------------------------------------
(* The requests of the attachment specification: categories and the        *)
(* entries they are attached to.                                           *)

\* entry submissions that differ in the categories ticked
AttachEntryData == {EntryFields(<<>>, Gym, <<7>>, c) : c \in SUBSET CategoryIds}

AttachCategoryData(u) ==
    IF u = "u1" THEN {CategoryFields(Work, Blue), CategoryFields(Home, Blue)}
    ELSE {CategoryFields(Work, Blue)}

AttachedEntryIds == 1..MaxAttachedEntries

AttachNext ==
    \/ \E u \in Users : \E data \in AttachCategoryData(u) : category_create(u, "POST", data)
    \/ \E u \in Users, pk \in CategoryIds : category_delete(u, pk, "POST")
    \/ \E u \in Users, pk \in CategoryIds : category_ajax_delete(u, pk, "DELETE")
    \/ \E u \in Users, data \in AttachEntryData :
           nextEntryId <= MaxAttachedEntries /\ entry_create(u, "POST", data)
    \/ \E u \in Users, pk \in AttachedEntryIds, data \in AttachEntryData :
           entry_edit(u, pk, "POST", data)
    \/ \E e \in AttachedEntryIds, pk_set \in SUBSET CategoryIds :
           Entry_categories_add(e, pk_set)

AttachSpec == Init /\ [][AttachNext]_vars

----------------------------------------------------------------------------
(* The weekly dashboard.                                                   *)

Digits == <<"0", "1", "2", "3", "4", "5", "6", "7", "8", "9">>

IsDigit(c) == \E i \in 1..10 : Digits[i] = c

DigitValue(c) == (CHOOSE i \in 1..10 : Digits[i] = c) - 1

RECURSIVE DigitsValue(_)
DigitsValue(s) ==
    IF s = <<>> THEN 0
    ELSE 10 * DigitsValue(SubSeq(s, 1, Len(s) - 1)) + DigitValue(s[Len(s)])

\* int(s) of a query parameter: an optional sign and decimal digits, else ValueError
IsIntLiteral(s) ==
    LET body == IF s # <<>> /\ Head(s) \in {"-", "+"} THEN Tail(s) ELSE s
    IN  body # <<>> /\ \A i \in 1..Len(body) : IsDigit(body[i])

IntValue(s) ==
    IF Head(s) = "-" THEN 0 - DigitsValue(Tail(s))
    ELSE IF Head(s) = "+" THEN DigitsValue(Tail(s))
    ELSE DigitsValue(s)

\* week_offset of weekly_dashboard: request.GET.get('week', 0) through int(), 0 when
\* the parameter is absent (<<>>) or no integer
WeekOffset(week) == IF IsIntLiteral(week) THEN IntValue(week) ELSE 0

\* the largest number of days of a timedelta
MaxTimedeltaDays == 999999999

\* date + timedelta(days=n) raises OverflowError outside date.min .. date.max
DateInRange(d) == MinOrdinal <= d /\ d <= MaxOrdinal

\* a descriptor that counts today among the past days
DayDescriptor_today_is_past(day_date, now, entry) ==
    [date |-> day_date, entry |-> entry,
     is_today |-> day_date = now,
     is_past |-> day_date <= now,
     is_future |-> day_date > now]

\* one element of week_days; entry is the key of the user's entry of the day
DayDescriptor(day_date, now, entry) ==
    [date |-> day_date, entry |-> entry,
     is_today |-> day_date = now,
     is_past |-> day_date < now,
     is_future |-> day_date > now]

\* Entry.objects.get(user=request.user, entry_date=day_date), None when there is none
EntryOfDay(u, day_date) ==
    LET found == {e \in DOMAIN entries :
                    entries[e].user = Some(u) /\ entries[e].entry_date = Some(day_date)}
    IN  IF found = {} THEN None ELSE Some(CHOOSE e \in found : TRUE)

RECURSIVE SumMood(_)
SumMood(S) ==
    IF S = {} THEN 0
    ELSE LET e == CHOOSE x \in S : TRUE
         IN  entries[e].mood_rating[1] + SumMood(S \ {e})

\* round(total / count, 1) in tenths: the quotient of two small integers is a tie
\* only when it is a binary fraction, and round() sends a tie to the even digit
RoundTenths(total, count) ==
    LET q == (10 * total) \div count
        r == (10 * total) % count
    IN  IF 2 * r < count THEN q
        ELSE IF 2 * r > count THEN q + 1
        ELSE IF q % 2 = 0 THEN q ELSE q + 1

\* week_entries: the user's entries dated in target_week_start .. week_end
WeekEntries(u, target_week_start) ==
    {e \in DOMAIN entries :
        /\ entries[e].user = Some(u)
        /\ entries[e].entry_date # None
        /\ target_week_start <= entries[e].entry_date[1]
        /\ entries[e].entry_date[1] <= target_week_start + 6}

\* an average over the rated entries of the week of every user
AvgMood_any_user(u, target_week_start) ==
    LET mood_entries == {e \in DOMAIN entries :
                            /\ entries[e].entry_date # None
                            /\ target_week_start <= entries[e].entry_date[1]
                            /\ entries[e].entry_date[1] <= target_week_start + 6
                            /\ entries[e].mood_rating # None}
    IN  IF mood_entries = {} THEN None
        ELSE Some(RoundTenths(SumMood(mood_entries), Cardinality(mood_entries)))

\* week_stats['avg_mood'], in tenths; None when no entry of the week is rated
AvgMood(u, target_week_start) ==
    LET mood_entries == {e \in WeekEntries(u, target_week_start) :
                            entries[e].mood_rating # None}
    IN  IF mood_entries = {} THEN None
        ELSE Some(RoundTenths(SumMood(mood_entries), Cardinality(mood_entries)))

\* week_stats['entries_count']: the entries of the week that have content
EntriesCount(u, target_week_start) ==
    Cardinality({e \in WeekEntries(u, target_week_start) :
                    \/ entries[e].title # <<>>
                    \/ entries[e].content # <<>>
                    \/ entries[e].gratitude_text # <<>>
                    \/ entries[e].mood_rating # None})

\* date.year and date.month of an ordinal
YearOf(d) ==
    CHOOSE y \in (d \div 366)..((d \div 365) + 1) :
        y >= 1 /\ DaysBeforeYear(y) < d /\ d <= DaysBeforeYear(y + 1)

MonthOf(d) ==
    LET y == YearOf(d)
        n == d - DaysBeforeYear(y)
    IN  CHOOSE m \in 1..12 :
            DaysBeforeMonth(y, m) < n /\ n <= DaysBeforeMonth(y, m) + DaysInMonth(y, m)

\* date(y, m, d) raises ValueError unless the triple names a day
ValidDate(y, m, d) == ValidDateString(<<y, m, d>>)

\* calendar.Calendar(firstweekday=0).monthdayscalendar(y, m): the days of the
\* month after a 0 for each day before the first one in its week, filled with 0 to
\* whole weeks, in rows of seven
monthdayscalendar(y, m) ==
    LET day1 == Weekday(Ordinal(y, m, 1))
        ndays == DaysInMonth(y, m)
        days_before == day1 % 7
        days_after == (7 - ((day1 + ndays) % 7)) % 7
        days == [i \in 1..days_before |-> 0] \o [i \in 1..ndays |-> i]
                    \o [i \in 1..days_after |-> 0]
    IN  [w \in 1..(Len(days) \div 7) |-> SubSeq(days, 7 * (w - 1) + 1, 7 * w)]

\* month_end: the day before the first of the next month; date(y + 1, 1, 1) raises
\* ValueError after year 9999
MonthEndRaises(y, m) == m = 12 /\ ~ValidDate(y + 1, 1, 1)

\* a month end whose December stays in the year
MonthEnd_same_year(y, m) ==
    IF m = 12 THEN Ordinal(y, 1, 1) - 1 ELSE Ordinal(y, m + 1, 1) - 1

MonthEnd(y, m) ==
    IF m = 12 THEN Ordinal(y + 1, 1, 1) - 1 ELSE Ordinal(y, m + 1, 1) - 1

\* entry_dates: the dates of the user's entries within month_start .. month_end
EntryDates(u, y, m) ==
    LET month_start == Ordinal(y, m, 1)
        month_end == MonthEnd(y, m)
    IN  {entries[e].entry_date[1] :
            e \in {x \in DOMAIN entries :
                     /\ entries[x].user = Some(u)
                     /\ entries[x].entry_date # None
                     /\ month_start <= entries[x].entry_date[1]
                     /\ entries[x].entry_date[1] <= month_end}}

\* calendar_weeks of weekly_dashboard: a cell for each element of month_days; the
\* empty cell has day 0 ('' in the code) and no date; date(y, m, day) is the day - 1
\* days after month_start
CalendarWeeks(u, y, m, now) ==
    LET month_days == monthdayscalendar(y, m)
        month_start == Ordinal(y, m, 1)
        entry_dates == EntryDates(u, y, m)
    IN  [w \in 1..Len(month_days) |->
            [c \in 1..7 |->
                LET day == month_days[w][c]
                    day_date == month_start + (day - 1)
                IN  IF day = 0
                    THEN [day |-> 0, is_today |-> FALSE, has_entry |-> FALSE,
                          date |-> None]
                    ELSE [day |-> day, is_today |-> day_date = now,
                          has_entry |-> day_date \in entry_dates,
                          date |-> Some(day_date)]]]

\* calendar_html of get_calendar_data: a row for each week, a cell for each
\* element; is_today and has_entry are the classes of the cell, date is the day of
\* its onclick, which only a day with an entry has
CalendarHtml(u, y, m, now) ==
    LET month_days == monthdayscalendar(y, m)
        month_start == Ordinal(y, m, 1)
        entry_dates == EntryDates(u, y, m)
    IN  [w \in 1..Len(month_days) |->
            [c \in 1..7 |->
                LET day == month_days[w][c]
                    day_date == month_start + (day - 1)
                IN  IF day = 0
                    THEN [day |-> 0, is_today |-> FALSE, has_entry |-> FALSE,
                          date |-> None]
                    ELSE [day |-> day, is_today |-> day_date = now,
                          has_entry |-> day_date \in entry_dates,
                          date |-> IF day_date \in entry_dates
                                   THEN Some(day_date) ELSE None]]]

\* weekly_dashboard: the week, its statistics and the grid of today's month
weekly_dashboard(u, week) ==
    LET week_start == today - Weekday(today)
        week_offset == WeekOffset(week)
        target_week_start == week_start + 7 * week_offset
        overflow == \/ 7 * week_offset > MaxTimedeltaDays
                    \/ 7 * week_offset < 0 - MaxTimedeltaDays
                    \/ ~DateInRange(target_week_start)
                    \/ ~DateInRange(target_week_start + 6)
                    \/ MonthEndRaises(YearOf(today), MonthOf(today))
    IN  /\ response' =
               IF overflow
               THEN [Resp("weekly_dashboard", u, "GET", None, 500, FALSE, {})
                        EXCEPT !.shown = {}] @@
                    [week_offset |-> week_offset, week_days |-> <<>>,
                     week_start |-> 0, avg_mood |-> None, entries_count |-> 0,
                     calendar_weeks |-> <<>>, calendar_month |-> 0,
                     calendar_year |-> 0]
               ELSE LET week_days ==
                            [i \in 1..7 |->
                                DayDescriptor(target_week_start + (i - 1), today,
                                              EntryOfDay(u, target_week_start + (i - 1)))]
                    IN  Resp("weekly_dashboard", u, "GET", None, 200, FALSE,
                             {week_days[i].entry[1] :
                                 i \in {j \in 1..7 : week_days[j].entry # None}}) @@
                        [week_offset |-> week_offset, week_days |-> week_days,
                         week_start |-> target_week_start,
                         avg_mood |-> AvgMood(u, target_week_start),
                         entries_count |-> EntriesCount(u, target_week_start),
                         calendar_weeks |->
                             CalendarWeeks(u, YearOf(today), MonthOf(today), today),
                         calendar_month |-> MonthOf(today) - 1,
                         calendar_year |-> YearOf(today)]
        /\ UNCHANGED <<entries, categories, nextEntryId, nextCategoryId, today, pending, sticky_notes, nextNoteId>>

\* int(request.GET.get(name, default)): the default without the parameter (<<>>),
\* ValueError when it is no integer
IntParamRaises(raw) == raw # <<>> /\ ~IsIntLiteral(raw)

IntParam(raw, default) == IF raw = <<>> THEN default ELSE IntValue(raw)

\* get_calendar_data: the grid of the month and year of the query, today's without
\* them.  int(), monthdayscalendar() and date() raise on a parameter that is no
\* integer, no month or no year of a date: status 500
get_calendar_data(u, month_raw, year_raw) ==
    LET month == IntParam(month_raw, MonthOf(today))
        year == IntParam(year_raw, YearOf(today))
        raises == \/ IntParamRaises(month_raw)
                  \/ IntParamRaises(year_raw)
                  \/ month \notin 1..12
                  \/ ~ValidDate(year, month, 1)
                  \/ MonthEndRaises(year, month)
    IN  /\ response' =
               IF raises
               THEN Resp("get_calendar_data", u, "GET", None, 500, FALSE, {}) @@
                    [calendar_weeks |-> <<>>, calendar_month |-> 0,
                     calendar_year |-> 0]
               ELSE Resp("get_calendar_data", u, "GET", None, 200, FALSE, {}) @@
                    [calendar_weeks |-> CalendarHtml(u, year, month, today),
                     calendar_month |-> month, calendar_year |-> year]
        /\ UNCHANGED <<entries, categories, nextEntryId, nextCategoryId, today, pending, sticky_notes, nextNoteId>>

----------------------------------------------------------------------------
(* The requests of the dashboard specification: the dashboard is a         *)
(* function of today, the week parameter and the entries, which the        *)
(* initial states draw.                                                    *)

\* Monday 2024-06-10, the first day of the week of Day1
Monday == ParseDate(<<2024, 6, 10>>)

\* the days that have an entry or not: four of the week and the Monday after
DashDates == <<Monday, Monday + 1, Monday + 2, Monday + 6, Monday + 7>>

\* what each of these days may hold: no entry, an entry without a mood, or an
\* entry rated 2 or 3
DashOptions ==
    <<{"none", "2", "3"}, {"unrated", "2"}, {"2", "3"}, {"none", "3"},
      {"none", "unrated", "3"}>>

DashRow(u, day_date, option) ==
    [NewEntry EXCEPT !.user = Some(u), !.entry_date = Some(day_date),
                     !.title = IF option = "unrated" THEN Gym ELSE <<>>,
                     !.mood_rating = IF option = "2" THEN <<2>>
                                     ELSE IF option = "3" THEN <<3>> ELSE None]

\* the table with u1's entries as chosen by f, after an entry of u2 rated 10
DashTable(f) ==
    LET kept == SelectSeq([i \in 1..Len(DashDates) |-> i], LAMBDA i : f[i] # "none")
    IN  <<[DashRow("u2", Monday, "none") EXCEPT !.mood_rating = <<10>>]>>
        \o [k \in 1..Len(kept) |-> DashRow("u1", DashDates[kept[k]], f[kept[k]])]

\* the week parameters: small offsets, no integer, and a week past date.max
SignedDigit(n) == IF n < 0 THEN <<"-", Digits[1 - n]>> ELSE <<Digits[n + 1]>>

WeekParams ==
    {SignedDigit(n) : n \in (0 - MaxWeekOffset)..MaxWeekOffset}
    \cup {<<>>, <<"x">>, <<"6", "0", "0", "0", "0", "0">>}

DashInit ==
    /\ today \in {Monday + i : i \in 0..6}
    /\ \E f \in [1..Len(DashDates) -> UNION {DashOptions[i] : i \in 1..Len(DashDates)}] :
           /\ \A i \in 1..Len(DashDates) : f[i] \in DashOptions[i]
           /\ entries = DashTable(f)
           /\ nextEntryId = Len(DashTable(f)) + 1
    /\ categories = <<>>
    /\ nextCategoryId = 1
    /\ sticky_notes = <<>>
    /\ nextNoteId = 1
    /\ pending = EmptyBag
    /\ response = NoResponse

DashNext == \E u \in Users, week \in WeekParams : weekly_dashboard(u, week)

DashSpec == DashInit /\ [][DashNext]_vars

----------------------------------------------------------------------------
(* The requests of the calendar specification: the month grids are         *)
(* functions of today, the query and the entries, which the initial states *)
(* draw.                                                                   *)

\* the entries a table may hold: of u1 on the first and the last day of December,
\* on the days before and after the month, on 29 February and on the last day
\* there is, of u2 on today's day of December
CalRows ==
    <<[user |-> "u1", date |-> <<2024, 12, 1>>],
      [user |-> "u1", date |-> <<2024, 12, 31>>],
      [user |-> "u1", date |-> <<2024, 11, 30>>],
      [user |-> "u1", date |-> <<2025, 1, 1>>],
      [user |-> "u1", date |-> <<2024, 2, 29>>],
      [user |-> "u1", date |-> <<9999, 12, 31>>],
      [user |-> "u2", date |-> <<2024, 12, 16>>]>>

\* the table with the rows of S, after an entry of u1 without a date
CalTable(S) ==
    LET kept == SelectSeq([i \in 1..Len(CalRows) |-> i], LAMBDA i : i \in S)
    IN  <<[NewEntry EXCEPT !.user = Some("u1"), !.title = Gym]>>
        \o [k \in 1..Len(kept) |->
               [NewEntry EXCEPT !.user = Some(CalRows[kept[k]].user),
                                !.entry_date = Some(ParseDate(CalRows[kept[k]].date)),
                                !.title = Gym]]

\* today is a day of December or the last day of a February of 29 days
CalInit ==
    /\ today \in {ParseDate(<<2024, 12, 16>>), ParseDate(<<2024, 2, 29>>)}
    /\ \E S \in SUBSET (1..Len(CalRows)) :
           /\ entries = CalTable(S)
           /\ nextEntryId = Len(CalTable(S)) + 1
    /\ categories = <<>>
    /\ nextCategoryId = 1
    /\ sticky_notes = <<>>
    /\ nextNoteId = 1
    /\ pending = EmptyBag
    /\ response = NoResponse

\* the month parameters: none, December, February, no month and no integer;
\* the year parameters: none, 2024 and the last year of a date
CalNext ==
    \/ \E u \in Users : weekly_dashboard(u, <<>>)
    \/ \E u \in Users :
       \E month \in {<<>>, <<"1", "2">>, <<"2">>, <<"1", "3">>, <<"x">>} :
       \E year \in {<<>>, <<"2", "0", "2", "4">>, <<"9", "9", "9", "9">>} :
           get_calendar_data(u, month, year)

CalSpec == CalInit /\ [][CalNext]_vars

----------------------------------------------------------------------------
(* The requests of the form specification: one user submits field values   *)
(* to the views that use EntryForm.                                        *)

\* a title of two characters
Gy == <<"G", "y">>

\* a text of five characters, three of them after trimming
Padded == <<"G", "y", "m", " ", " ">>

\* a text of five characters
Wins == <<"G", "y", "m", "m", "y">>

FormFields(title, content, gratitude_text, mood) ==
    [entry_date |-> Day1, title |-> title, content |-> content, mood_rating |-> mood,
     gratitude_text |-> gratitude_text, categories |-> {}]

\* the submissions: the empty ones, each field alone, present and long enough or
\* too short, and fields together
FormData ==
    {FormFields(<<>>, <<>>, <<>>, <<>>),
     FormFields(<<" ">>, <<" ">>, <<>>, <<>>),
     FormFields(Gym, <<>>, <<>>, <<>>),
     FormFields(<<>>, Wins, <<>>, <<>>),
     FormFields(<<>>, <<>>, Wins, <<>>),
     FormFields(<<>>, <<>>, <<>>, <<7>>),
     FormFields(Gy, <<>>, <<>>, <<>>),
     FormFields(Gy, Wins, <<>>, <<7>>),
     FormFields(<<>>, Padded, <<>>, <<7>>),
     FormFields(Gym, <<>>, Padded, <<>>),
     FormFields(Gym, Wins, Wins, <<7>>)}

FormNext ==
    \/ \E data \in FormData : entry_create("u1", "POST", data)
    \/ \E pk \in EntryIds, data \in FormData : entry_edit("u1", pk, "POST", data)
    \/ \E data \in FormData : entry_detail_modal("u1", "POST", Day1, data)
    \/ \E pk \in EntryIds : entry_delete("u1", pk, "POST")

FormSpec == Init /\ [][FormNext]_vars

----------------------------------------------------------------------------
(* Sticky notes.  A StickyNote row is its owner, its content and its order *)
(* (created_at is left out: no time passes here).                          *)

NoteMethods == {"GET", "POST", "DELETE"}

\* a JSON answer of a sticky-note view; error is the message of a failure
NoteResp(op, u, method, pk, error) ==
    [Resp(op, u, method, pk, 200, error # "", {}) EXCEPT !.error = error]

\* StickyNote.objects.get(id=note_id, user=request.user)
StickyNote_found(u, note_id) ==
    note_id \in DOMAIN sticky_notes /\ sticky_notes[note_id].user = u

\* an order counted from the number of the user's notes
next_order_by_count(u) ==
    Cardinality({n \in DOMAIN sticky_notes : sticky_notes[n].user = u})

\* request.user.sticky_notes.order_by('-order').first(), then last_note.order + 1,
\* or 0 without a note
next_order(u) ==
    LET mine == {n \in DOMAIN sticky_notes : sticky_notes[n].user = u}
    IN  IF mine = {} THEN 0
        ELSE (CHOOSE o \in {sticky_notes[n].order : n \in mine} :
                  \A n \in mine : sticky_notes[n].order <= o) + 1

\* sticky_note_create
sticky_note_create(u, method, raw) ==
    LET content == Strip(raw)
    IN  /\ IF method = "POST"
           THEN IF content # <<>>
                THEN /\ nextNoteId <= MaxNotes
                     /\ sticky_notes' =
                            Put(sticky_notes, nextNoteId,
                                [user |-> u, content |-> content, order |-> next_order(u)])
                     /\ nextNoteId' = nextNoteId + 1
                     /\ response' = NoteResp("sticky_note_create", u, "POST",
                                             Some(nextNoteId), "")
                ELSE /\ response' = NoteResp("sticky_note_create", u, "POST", None,
                                             "Content cannot be empty")
                     /\ UNCHANGED <<sticky_notes, nextNoteId>>
           ELSE /\ response' = NoteResp("sticky_note_create", u, method, None,
                                        "Invalid request method")
                /\ UNCHANGED <<sticky_notes, nextNoteId>>
        /\ UNCHANGED <<entries, categories, nextEntryId, nextCategoryId, today, pending>>

\* an update that keeps the note when the new content is empty
sticky_note_update_keeps_empty(u, note_id, method, raw) ==
    LET content == Strip(raw)
    IN  /\ IF method = "POST"
           THEN IF StickyNote_found(u, note_id)
                THEN /\ sticky_notes' =
                            Put(sticky_notes, note_id,
                                [sticky_notes[note_id] EXCEPT !.content = content])
                     /\ response' = NoteResp("sticky_note_update", u, "POST",
                                             Some(note_id), "")
                ELSE /\ response' = NoteResp("sticky_note_update", u, "POST",
                                             Some(note_id), "Note not found")
                     /\ UNCHANGED sticky_notes
           ELSE /\ response' = NoteResp("sticky_note_update", u, method, Some(note_id),
                                        "Invalid request method")
                /\ UNCHANGED sticky_notes
        /\ UNCHANGED <<entries, categories, nextEntryId, nextCategoryId, nextNoteId,
                       today, pending>>

\* an update that writes the note back when no note has the id
sticky_note_update_upsert(u, note_id, method, raw) ==
    LET content == Strip(raw)
    IN  /\ IF method = "POST"
           THEN IF StickyNote_found(u, note_id)
                THEN /\ sticky_notes' =
                            IF content # <<>>
                            THEN Put(sticky_notes, note_id,
                                     [sticky_notes[note_id] EXCEPT !.content = content])
                            ELSE Drop(sticky_notes, note_id)
                     /\ response' = NoteResp("sticky_note_update", u, "POST",
                                             Some(note_id), "")
                ELSE IF note_id \notin DOMAIN sticky_notes /\ content # <<>>
                THEN /\ sticky_notes' =
                            Put(sticky_notes, note_id,
                                [user |-> u, content |-> content, order |-> next_order(u)])
                     /\ response' = NoteResp("sticky_note_update", u, "POST",
                                             Some(note_id), "")
                ELSE /\ response' = NoteResp("sticky_note_update", u, "POST",
                                             Some(note_id), "Note not found")
                     /\ UNCHANGED sticky_notes
           ELSE /\ response' = NoteResp("sticky_note_update", u, method, Some(note_id),
                                        "Invalid request method")
                /\ UNCHANGED sticky_notes
        /\ UNCHANGED <<entries, categories, nextEntryId, nextCategoryId, nextNoteId,
                       today, pending>>

\* sticky_note_update
sticky_note_update(u, note_id, method, raw) ==
    LET content == Strip(raw)
    IN  /\ IF method = "POST"
           THEN IF StickyNote_found(u, note_id)
                THEN /\ sticky_notes' =
                            IF content # <<>>
                            THEN Put(sticky_notes, note_id,
                                     [sticky_notes[note_id] EXCEPT !.content = content])
                            ELSE Drop(sticky_notes, note_id)
                     /\ response' = NoteResp("sticky_note_update", u, "POST",
                                             Some(note_id), "")
                ELSE /\ response' = NoteResp("sticky_note_update", u, "POST",
                                             Some(note_id), "Note not found")
                     /\ UNCHANGED sticky_notes
           ELSE /\ response' = NoteResp("sticky_note_update", u, method, Some(note_id),
                                        "Invalid request method")
                /\ UNCHANGED sticky_notes
        /\ UNCHANGED <<entries, categories, nextEntryId, nextCategoryId, nextNoteId,
                       today, pending>>

\* StickyNote.complete_as_win(): the note becomes a win of its owner and is deleted.
\* The win is the owner's entry of today, created with the note's content as its
\* title when there is none, and else given the content after its own.
complete_as_win(note_id) ==
    LET note == sticky_notes[note_id]
        found == {e \in DOMAIN entries :
                    entries[e].user = Some(note.user)
                    /\ entries[e].entry_date = Some(today)}
    IN  /\ found = {} => nextEntryId <= MaxEntries
        /\ entries' =
               IF found = {}
               THEN Put(entries, nextEntryId,
                        [NewEntry EXCEPT !.user = Some(note.user),
                                         !.entry_date = Some(today),
                                         !.title = note.content])
               ELSE LET e == CHOOSE x \in found : TRUE
                    IN  Put(entries, e,
                            [entries[e] EXCEPT !.content = @ \o note.content])
        /\ nextEntryId' = IF found = {} THEN nextEntryId + 1 ELSE nextEntryId
        /\ sticky_notes' = Drop(sticky_notes, note_id)

\* the entries of user u dated today
OnToday(tbl, u) ==
    {e \in DOMAIN tbl : tbl[e].user = Some(u) /\ tbl[e].entry_date = Some(today)}

\* a complete that looks the note up by its id alone
sticky_note_complete_any_owner(u, note_id, method) ==
    /\ IF method = "POST"
       THEN IF note_id \in DOMAIN sticky_notes
            THEN /\ complete_as_win(note_id)
                 /\ response' = [NoteResp("sticky_note_complete", u, "POST",
                                          Some(note_id), "")
                                    EXCEPT !.shown = OnToday(entries', u)]
            ELSE /\ response' = NoteResp("sticky_note_complete", u, "POST",
                                         Some(note_id), "Note not found")
                 /\ UNCHANGED <<entries, nextEntryId, sticky_notes>>
       ELSE /\ response' = NoteResp("sticky_note_complete", u, method, Some(note_id),
                                    "Invalid request method")
            /\ UNCHANGED <<entries, nextEntryId, sticky_notes>>
    /\ UNCHANGED <<categories, nextCategoryId, nextNoteId, today, pending>>

\* sticky_note_complete
sticky_note_complete(u, note_id, method) ==
    /\ IF method = "POST"
       THEN IF StickyNote_found(u, note_id)
            THEN /\ complete_as_win(note_id)
                 /\ response' = [NoteResp("sticky_note_complete", u, "POST",
                                          Some(note_id), "")
                                    EXCEPT !.shown = OnToday(entries', u)]
            ELSE /\ response' = NoteResp("sticky_note_complete", u, "POST",
                                         Some(note_id), "Note not found")
                 /\ UNCHANGED <<entries, nextEntryId, sticky_notes>>
       ELSE /\ response' = NoteResp("sticky_note_complete", u, method, Some(note_id),
                                    "Invalid request method")
            /\ UNCHANGED <<entries, nextEntryId, sticky_notes>>
    /\ UNCHANGED <<categories, nextCategoryId, nextNoteId, today, pending>>

\* sticky_note_delete
sticky_note_delete(u, note_id, method) ==
    /\ IF method = "DELETE"
       THEN IF StickyNote_found(u, note_id)
            THEN /\ sticky_notes' = Drop(sticky_notes, note_id)
                 /\ response' = NoteResp("sticky_note_delete", u, "DELETE",
                                         Some(note_id), "")
            ELSE /\ response' = NoteResp("sticky_note_delete", u, "DELETE",
                                         Some(note_id), "Note not found")
                 /\ UNCHANGED sticky_notes
       ELSE /\ response' = NoteResp("sticky_note_delete", u, method, Some(note_id),
                                    "Invalid request method")
            /\ UNCHANGED sticky_notes
    /\ UNCHANGED <<entries, categories, nextEntryId, nextCategoryId, nextNoteId, today, pending>>

----------------------------------------------------------------------------
(* The requests of the sticky-note specification.                          *)

\* the contents submitted to sticky_note_create: none, blank, and a text
NoteContents == {<<>>, <<" ">>, Gym}

\* the contents submitted to sticky_note_update: none, blank, and another text with
\* spaces around it
NewNoteContents == {<<>>, <<" ">>, <<" ">> \o Wins \o <<" ">>}

NoteIds == 1..MaxNotes

\* every view is called with the method it supports
StickyNext ==
    \/ \E u \in Users, raw \in NoteContents : sticky_note_create(u, "POST", raw)
    \/ \E u \in Users, n \in NoteIds, raw \in NewNoteContents :
           sticky_note_update(u, n, "POST", raw)
    \/ \E u \in Users, n \in NoteIds : sticky_note_complete(u, n, "POST")
    \/ \E u \in Users, n \in NoteIds : sticky_note_delete(u, n, "DELETE")

StickySpec == Init /\ [][StickyNext]_vars

----------------------------------------------------------------------------
(* The requests of the AJAX specification: one user calls the endpoints    *)
(* that answer JSON, with every method and with a date that is none.       *)

AjaxEntryData == {EntryFields(Day1, Gym, <<7>>, {}), EntryFields(Day1, <<>>, <<>>, {})}

\* the method each endpoint supports, and one it does not
AjaxMethods == {"POST", "DELETE"}

AjaxNoteIds == 1..MaxAjaxNotes

AjaxNext ==
    \/ \E m \in Methods, d \in {Day1, BadDay} :
           \E data \in DataOf(m, AjaxEntryData, NoData) :
               entry_detail_modal("u1", m, d, data)
    \/ \E m \in AjaxMethods : category_ajax_create("u1", m, CategoryFields(Work, Blue))
    \/ \E pk \in CategoryIds, m \in AjaxMethods : category_ajax_delete("u1", pk, m)
    \/ \E m \in AjaxMethods, raw \in {<<>>, Gym} :
           /\ m = "POST" => nextNoteId <= MaxAjaxNotes
           /\ sticky_note_create("u1", m, raw)
    \/ \E n \in AjaxNoteIds, m \in AjaxMethods, raw \in {<<>>, Gym} :
           sticky_note_update("u1", n, m, raw)
    \/ \E n \in AjaxNoteIds, m \in AjaxMethods : sticky_note_complete("u1", n, m)
    \/ \E n \in AjaxNoteIds, m \in AjaxMethods : sticky_note_delete("u1", n, m)

AjaxSpec == Init /\ [][AjaxNext]_vars

----------------------------------------------------------------------------
(* Concurrent requests.  A create view runs form.is_valid(), which reads    *)
(* the tables, and then form.save(), which writes; the store commits each   *)
(* statement on its own, so the steps of two requests may interleave.       *)
(* pending is the bag of the requests whose form was found valid and is not *)
(* yet saved (two requests may carry the same user and data).               *)

Request(op, u, data) == [op |-> op, user |-> u, data |-> data]

\* entry_create, POST: form.is_valid()
entry_create_is_valid(u, data) ==
    /\ BagCardinality(pending) < MaxRequests
    /\ IF EntryForm_is_valid(entries, categories, u, nextEntryId, NewEntry, data)
       THEN /\ pending' = pending (+) SetToBag({Request("entry_create", u, data)})
            /\ UNCHANGED response
       ELSE /\ response' = InvalidEntryForm("entry_create", u, None, 200, {}, data)
            /\ UNCHANGED pending
    /\ UNCHANGED <<entries, categories, nextEntryId, nextCategoryId, today,
                   sticky_notes, nextNoteId>>

\* entry_create, POST: form.save() of a request found valid, and the redirect
entry_create_save(q) ==
    /\ BagIn(q, pending)
    /\ q.op = "entry_create"
    /\ nextEntryId <= MaxEntries
    /\ EntryForm_save(entries, "entry_create", q.user, nextEntryId,
                      EntryForm_instance(categories, q.user, NewEntry, q.data),
                      q.data, 302)
    /\ nextEntryId' = IF nextEntryId \in DOMAIN entries'
                      THEN nextEntryId + 1 ELSE nextEntryId
    /\ pending' = pending (-) SetToBag({q})
    /\ UNCHANGED <<categories, nextCategoryId, today, sticky_notes, nextNoteId>>

\* category_create, POST: form.is_valid()
category_create_is_valid(u, data) ==
    /\ BagCardinality(pending) < MaxRequests
    /\ IF CategoryForm_is_valid(categories, u, None, data)
       THEN /\ pending' = pending (+) SetToBag({Request("category_create", u, data)})
            /\ UNCHANGED response
       ELSE /\ response' = RespCats("category_create", u, "POST", None, 200, TRUE, {})
            /\ UNCHANGED pending
    /\ UNCHANGED <<entries, categories, nextEntryId, nextCategoryId, today,
                   sticky_notes, nextNoteId>>

\* category_create, POST: form.save() of a request found valid, and the redirect
category_create_save(q) ==
    /\ BagIn(q, pending)
    /\ q.op = "category_create"
    /\ CategoryForm_create("category_create", q.user, q.data)
    /\ pending' = pending (-) SetToBag({q})
    /\ UNCHANGED <<entries, nextEntryId, today, sticky_notes, nextNoteId>>

----------------------------------------------------------------------------
(* The requests of the concurrent specification.                           *)

\* each request is the check or the write of a create by one of the users: of
\* entries for one day with two titles or with nothing filled in, of categories
\* with names that differ by case only or a blank one
RaceNext ==
    \/ \E u \in Users :
       \E title \in {Gym, Wins, <<>>} :
           entry_create_is_valid(u, EntryFields(Day1, title,
                                               IF title = Gym THEN <<7>> ELSE <<>>, {}))
    \/ \E q \in BagToSet(pending) : entry_create_save(q)
    \/ \E u \in Users :
       \E name \in {Work, Lower(Work), <<" ">>} :
           category_create_is_valid(u, CategoryFields(name, Blue))
    \/ \E q \in BagToSet(pending) : category_create_save(q)

RaceSpec == Init /\ [][RaceNext]_vars

----------------------------------------------------------------------------
(* The requests of the edit specification: records are created, and then   *)
(* POSTs that pass or fail validation name them.                           *)

\* the submissions to entry_edit and entry_detail_modal: another title for the
\* day, and one that fails for each of three reasons: nothing filled in, a mood
\* that is no choice, a category that may be another user's or nobody's
EditEntryData ==
    {EntryFields(Day1, Wins, <<7>>, {}),
     EntryFields(Day1, <<>>, <<>>, {}),
     EntryFields(Day1, Wins, <<11>>, {}),
     EntryFields(Day1, Wins, <<7>>, {1})}

\* the submissions to category_edit: the name of another category of u1 in another
\* case, a new name and a name too short
EditCategoryData ==
    {CategoryFields(Lower(Work), Blue), CategoryFields(Home, Blue),
     CategoryFields(<<"W">>, Blue)}

\* both users create records (u1 two categories, u2 one), and u1 edits
EditNext ==
    \/ \E u \in Users : entry_create(u, "POST", EntryFields(Day1, Gym, <<7>>, {}))
    \/ \E pk \in EntryIds, data \in EditEntryData : entry_edit("u1", pk, "POST", data)
    \/ \E data \in EditEntryData : entry_detail_modal("u1", "POST", Day1, data)
    \/ \E u \in Users : \E name \in (IF u = "u1" THEN {Work, Gym} ELSE {Work}) :
           category_create(u, "POST", CategoryFields(name, Blue))
    \/ \E pk \in CategoryIds, data \in EditCategoryData :
           category_edit("u1", pk, "POST", data)

EditSpec == Init /\ [][EditNext]_vars

----------------------------------------------------------------------------
(* The requests of the deletion specification: u1 creates an entry, a      *)
(* category and a sticky note, and both users call the views that delete   *)
(* and views that do not, with the methods they take and others.           *)

DeletableIds == 1..(MaxDeletable + 1)

DeleteNext ==
    \/ /\ nextEntryId <= MaxDeletable
       /\ entry_create("u1", "POST", EntryFields(Day1, Gym, <<7>>, {}))
    \/ /\ nextCategoryId <= MaxDeletable
       /\ category_create("u1", "POST", CategoryFields(Work, Blue))
    \/ /\ nextNoteId <= MaxDeletable
       /\ sticky_note_create("u1", "POST", Gym)
    \/ \E u \in Users, pk \in DeletableIds : entry_detail(u, pk)
    \/ \E u \in Users, pk \in DeletableIds :
           entry_edit(u, pk, "POST", EntryFields(Day1, <<>>, <<>>, {}))
    \/ \E u \in Users, pk \in DeletableIds :
           category_edit(u, pk, "POST", CategoryFields(<<"W">>, Blue))
    \/ \E u \in Users, pk \in DeletableIds, m \in Methods : entry_delete(u, pk, m)
    \/ \E u \in Users, pk \in DeletableIds, m \in Methods : category_delete(u, pk, m)
    \/ \E u \in Users, pk \in DeletableIds, m \in AjaxMethods :
           category_ajax_delete(u, pk, m)
    \/ \E u \in Users, n \in DeletableIds, raw \in {<<>>, Wins} :
           sticky_note_update(u, n, "POST", raw)
    \/ \E u \in Users, n \in DeletableIds : sticky_note_complete(u, n, "POST")
    \/ \E u \in Users, n \in DeletableIds, m \in AjaxMethods :
           sticky_note_delete(u, n, m)

DeleteSpec == Init /\ [][DeleteNext]_vars

----------------------------------------------------------------------------
(* Properties.                                                             *)

\* C1: a request made in one user's session never returns, changes or deletes an
\* entry owned by another user, and naming such an entry's id is answered 404.
C1_Step ==
    \A e \in DOMAIN entries :
        entries[e].user # Some(response'.user)
            => /\ e \in DOMAIN entries'
               /\ entries'[e] = entries[e]
               /\ e \notin response'.shown
               /\ (response'.pk = Some(e) => response'.status = 404)

C1_Isolation == [][C1_Step]_vars

\* a POST to entry_delete naming another user's entry was answered 404
C1_Witness ==
    /\ response.op = "entry_delete"
    /\ response.method = "POST"
    /\ response.status = 404
    /\ response.pk # None
    /\ response.pk[1] \in DOMAIN entries
    /\ entries[response.pk[1]].user # Some(response.user)

\* C4: no user has two entries dated on the same day (a second entry for a day the
\* user already has an entry on is never stored).
C4_OneEntryPerDay ==
    \A e1, e2 \in DOMAIN entries :
        (e1 # e2 /\ entries[e1].user = entries[e2].user /\ entries[e1].entry_date # None)
            => entries[e1].entry_date # entries[e2].entry_date

\* entry_create for a day the user already has an entry on was refused
C4_Witness ==
    /\ response.op = "entry_create"
    /\ response.status = 500
    /\ \E e \in DOMAIN entries :
           entries[e].user = Some(response.user) /\ entries[e].entry_date # None

MoodOutOfRange(data) == data.mood_rating # <<>> /\ data.mood_rating[1] \notin 1..10

\* the step is the answer to a POST of view op
Answered(op) == response'.op = op /\ response'.method = "POST"

C6_FormStep ==
    LET u == response'.user
    IN  /\ Answered("entry_create")
            => \A data \in EntryData :
                   (MoodOutOfRange(data) /\ entry_create(u, "POST", data))
                       => (response'.errors /\ entries' = entries)
        /\ (Answered("entry_edit") /\ Entry_found(u, response'.pk[1]))
            => \A data \in EditData :
                   (MoodOutOfRange(data) /\ entry_edit(u, response'.pk[1], "POST", data))
                       => (response'.errors /\ entries' = entries)
        /\ Answered("quick_add_win")
            => \A data \in QuickData :
                   (MoodOutOfRange(data) /\ quick_add_win(u, "POST", data))
                       => (response'.errors /\ entries' = entries)
        /\ Answered("quick_add_gratitude")
            => \A data \in QuickData :
                   (MoodOutOfRange(data) /\ quick_add_gratitude(u, "POST", data))
                       => (response'.errors /\ entries' = entries)

C6_Stored ==
    \A e \in DOMAIN entries :
        entries[e].mood_rating = None \/ entries[e].mood_rating[1] \in 1..10

\* C6: every stored mood_rating is absent or in 1..10, and a form submission with a
\* mood outside 1..10 is answered with a validation error and writes nothing.
C6_MoodInRange == [][C6_Stored /\ C6_Stored' /\ C6_FormStep]_vars

\* a rated entry is stored, and a write of mood 11 past the forms was refused by the
\* table (the user has no entry on that day, so the refusal is the mood's)
C6_Witness ==
    /\ response.op = "Entry.objects.create"
    /\ response.status = 500
    /\ \A e \in DOMAIN entries :
           entries[e].user = Some(response.user) => entries[e].entry_date = None
    /\ \E e \in DOMAIN entries : entries[e].mood_rating = <<7>>

\* C10: a quick-add POST with empty title and empty content creates no entry and
\* reports an error.
C10_QuickAddEmptyRejected ==
    [][(Answered("quick_add_win") \/ Answered("quick_add_gratitude"))
          => \A data \in QuickData :
                 (/\ data.title = <<>>
                  /\ data.content = <<>>
                  /\ (\/ quick_add_win(response'.user, "POST", data)
                      \/ quick_add_gratitude(response'.user, "POST", data)))
                     => (entries' = entries /\ response'.errors)]_vars

\* some key of pk_set is no category of the owner of entry e
ForeignCategory(e, pk_set) ==
    \E c \in pk_set : ~(c \in DOMAIN categories /\ categories[c].user = entries[e].user)

C2_Step ==
    /\ response'.op = "Entry.categories.add"
        => \A pk_set \in SUBSET CategoryIds :
               (ForeignCategory(response'.pk[1],
                                pk_set \ entries[response'.pk[1]].categories)
                  /\ Entry_categories_add(response'.pk[1], pk_set))
                   => (response'.status = 500 /\ entries' = entries)
    /\ (Answered("entry_edit") /\ response'.status # 404)
        => \A data \in AttachEntryData :
               (/\ ForeignCategory(response'.pk[1], data.categories)
                /\ entry_edit(response'.user, response'.pk[1], "POST", data))
                   => (response'.errors /\ entries' = entries)

C2_Attached ==
    \A e \in DOMAIN entries : \A c \in entries[e].categories :
        c \in DOMAIN categories /\ categories[c].user = entries[e].user

\* C2: every category attached to an entry is owned by the entry's owner, and an
\* attempt to attach a category of another user (through the entry form, or past it)
\* fails and attaches nothing.
C2_SameOwner == [][C2_Attached /\ C2_Attached' /\ C2_Step]_vars

\* an entry carries a category, and an attachment past the form was refused
C2_Witness ==
    /\ response.op = "Entry.categories.add"
    /\ response.status = 500
    /\ \E e \in DOMAIN entries : entries[e].categories # {}

\* the user has a category whose name equals name ignoring case, other than pk
NameTaken(u, name, pk) ==
    \E c \in DOMAIN categories :
        /\ Some(c) # pk
        /\ categories[c].user = Some(u)
        /\ Lower(categories[c].name) = Lower(Strip(name))

C3_Step ==
    /\ Answered("category_create")
        => \A data \in CategoryData :
               (NameTaken(response'.user, data.name, None)
                  /\ category_create(response'.user, "POST", data))
                   => (response'.errors /\ categories' = categories)
    /\ Answered("category_ajax_create")
        => \A data \in CategoryData :
               (NameTaken(response'.user, data.name, None)
                  /\ category_ajax_create(response'.user, "POST", data))
                   => (response'.errors /\ categories' = categories)

C3_Distinct ==
    \A c1, c2 \in DOMAIN categories :
        (c1 # c2 /\ categories[c1].user = categories[c2].user)
            => Lower(categories[c1].name) # Lower(categories[c2].name)

\* C3: no user owns two categories whose names are equal ignoring case, and creating
\* a category whose name the user already has, up to case, fails.
C3_UniqueNames == [][C3_Distinct /\ C3_Distinct' /\ C3_Step]_vars

\* the table refused the name "work" to a user whose category is named "Work"
C3_Witness ==
    /\ response.op = "Category.objects.create"
    /\ response.status = 500
    /\ \E c \in DOMAIN categories :
           categories[c].user = Some(response.user) /\ categories[c].name = Work

\* user u has an entry on the day of the date string, other than pk
DateTaken(u, entry_date, pk) ==
    /\ ValidDateString(entry_date)
    /\ \E e \in DOMAIN entries :
           /\ Some(e) # pk
           /\ entries[e].user = Some(u)
           /\ entries[e].entry_date = Some(ParseDate(entry_date))

Reported == response'.errors /\ response'.status # 500

C5_Step ==
    LET u == response'.user
    IN  /\ Answered("entry_create")
            => \A data \in EntryData :
                   (DateTaken(u, data.entry_date, None) /\ entry_create(u, "POST", data))
                       => (Reported /\ entries' = entries)
        /\ Answered("entry_edit")
            => \A pk \in DOMAIN entries, data \in EditData :
                   (/\ Entry_found(u, pk)
                    /\ DateTaken(u, data.entry_date, Some(pk))
                    /\ entry_edit(u, pk, "POST", data))
                       => (Reported /\ entries' = entries)
        /\ Answered("category_create")
            => \A data \in CategoryData :
                   (NameTaken(u, data.name, None) /\ category_create(u, "POST", data))
                       => (Reported /\ categories' = categories)
        /\ Answered("category_edit")
            => \A pk \in DOMAIN categories, data \in CategoryData :
                   (/\ Category_found(u, pk)
                    /\ NameTaken(u, data.name, Some(pk))
                    /\ category_edit(u, pk, "POST", data))
                       => (Reported /\ categories' = categories)

\* C5: a submission that conflicts with a uniqueness rule (an entry date the user
\* already has an entry on, a category name the user already has) is answered with
\* a validation message, not a server error, and writes nothing.
C5_ConflictReported == [][C5_Step]_vars


\* the answer of the weekly dashboard
Dashboard == response.op = "weekly_dashboard"

\* C7: for every today and every integer week offset the dashboard gives exactly
\* seven day descriptors with consecutive dates, the first of them the Monday of
\* the week that contains today + 7 * offset days (for offset 0 the latest Monday
\* on or before today).
C7_SevenDaysFromMonday ==
    Dashboard =>
        LET days == response.week_days
        IN  /\ Len(days) = 7
            /\ Weekday(days[1].date) = 0
            /\ \A i \in 1..6 : days[i + 1].date = days[i].date + 1
            /\ days[1].date <= today + 7 * response.week_offset
            /\ today + 7 * response.week_offset <= days[7].date
            /\ response.week_offset = 0 => days[1].date <= today

\* C8: every day descriptor carries exactly one of is_today, is_past and is_future,
\* is_today exactly on the descriptor dated today; with offset 0 exactly one
\* descriptor is today's, with any other offset none is.
C8_OneFlagPerDay ==
    Dashboard =>
        LET days == response.week_days
            todays == {i \in DOMAIN days : days[i].is_today}
        IN  /\ \A i \in DOMAIN days :
                   /\ Cardinality({f \in {"is_today", "is_past", "is_future"} :
                                      days[i][f]}) = 1
                   /\ days[i].is_today <=> days[i].date = today
            /\ response.week_offset = 0 => Cardinality(todays) = 1
            /\ response.week_offset # 0 => todays = {}

\* the dashboard of this week on a day inside the week: one descriptor is today's,
\* the days before it are past and the days after it future
C8_Witness ==
    /\ Dashboard
    /\ response.week_offset = 0
    /\ \E i, j, k \in DOMAIN response.week_days :
           /\ response.week_days[i].is_past
           /\ response.week_days[j].is_today
           /\ response.week_days[k].is_future

\* the rated entries of the answered user that are dated in the answered week
RatedInWeek ==
    {e \in DOMAIN entries :
        /\ entries[e].user = Some(response.user)
        /\ entries[e].mood_rating # None
        /\ entries[e].entry_date # None
        /\ response.week_start <= entries[e].entry_date[1]
        /\ entries[e].entry_date[1] <= response.week_start + 6}

\* C9: the weekly average mood is absent exactly when the current user has no
\* rated entry dated in the week, and otherwise is the mean of the ratings of
\* exactly those entries rounded to one decimal (within half a tenth of it).
C9_AverageMood ==
    (Dashboard /\ response.status = 200) =>
        LET n == Cardinality(RatedInWeek)
            total == SumMood(RatedInWeek)
        IN  /\ response.avg_mood = None <=> RatedInWeek = {}
            /\ RatedInWeek # {} =>
                   LET diff == 10 * total - response.avg_mood[1] * n
                   IN  2 * diff <= n /\ 0 - n <= 2 * diff

\* the average of 2, 2, 2 and 3 is 2.25 and shown as 2.2, while another user and
\* another week hold rated entries too
C9_Witness ==
    /\ Dashboard
    /\ response.user = "u1"
    /\ Cardinality(RatedInWeek) = 4
    /\ SumMood(RatedInWeek) = 9
    /\ response.avg_mood = Some(22)
    /\ \E e \in DOMAIN entries :
           entries[e].user = Some("u2") /\ entries[e].mood_rating # None
    /\ \E e \in DOMAIN entries \ RatedInWeek :
           entries[e].user = Some("u1") /\ entries[e].mood_rating # None

\* the step is the answer to a quick-add POST
QuickAnswered == Answered("quick_add_win") \/ Answered("quick_add_gratitude")

\* C11: a successful quick-add stores the submitted title in the current user's
\* entry dated today (the date defaults to today), also when the user already has
\* an entry for today.
C11_QuickAddToday ==
    [][QuickAnswered
          => \A data \in QuickData :
                 (/\ data.title # <<>>
                  /\ (\/ quick_add_win(response'.user, "POST", data)
                      \/ quick_add_gratitude(response'.user, "POST", data))
                  /\ response'.status = 302
                  /\ ~response'.errors)
                     => \E e \in DOMAIN entries' :
                            /\ entries'[e].user = Some(response'.user)
                            /\ entries'[e].entry_date = Some(today)
                            /\ entries'[e].title = Strip(data.title)]_vars

\* title, content and gratitude text are empty or blank and no mood is selected
Blank(data) ==
    /\ Strip(data.title) = <<>>
    /\ Strip(data.content) = <<>>
    /\ Strip(data.gratitude_text) = <<>>
    /\ data.mood_rating = <<>>

\* the text is empty after trimming or has at least min characters
LongEnough(text, min) == Strip(text) = <<>> \/ Len(Strip(text)) >= min

\* nothing but emptiness could make the form reject the submission of user u
OtherwiseValid(u, data) ==
    /\ LongEnough(data.title, 3)
    /\ LongEnough(data.content, ContentMinLen)
    /\ LongEnough(data.gratitude_text, 5)
    /\ data.mood_rating = <<>> \/ data.mood_rating[1] \in 1..10
    /\ data.entry_date = <<>> \/ ValidDateString(data.entry_date)
    /\ \A c \in data.categories : c \in DOMAIN categories /\ categories[c].user = Some(u)

\* the step is the answer to the submission of data through EntryForm
FormSubmitted(data) ==
    LET u == response'.user
    IN  \/ Answered("entry_create") /\ entry_create(u, "POST", data)
        \/ /\ Answered("entry_edit")
           /\ response'.status # 404
           /\ entry_edit(u, response'.pk[1], "POST", data)
        \/ Answered("entry_detail_modal") /\ entry_detail_modal(u, "POST", Day1, data)

\* the step added the blank entry of the day to a user who had no entry on it
BlankDayEntryCreated ==
    LET u == response'.user
        blank == [NewEntry EXCEPT !.user = Some(u), !.entry_date = Some(ParseDate(Day1))]
    IN  /\ response'.op = "entry_detail_modal"
        /\ \A e \in DOMAIN entries : ~(entries[e].user = blank.user
                                       /\ entries[e].entry_date = blank.entry_date)
        /\ \E e \in DOMAIN entries' \ DOMAIN entries : entries' = Put(entries, e, blank)

\* a submission with something present and otherwise valid is not rejected as empty
PresentNotEmpty(data) ==
    (~Blank(data) /\ OtherwiseValid(response'.user, data))
        => "__all__" \notin response'.form_errors

\* C12: an EntryForm submission (entry_create, entry_edit, POST to
\* entry_detail_modal) whose title, content and gratitude text are empty or blank
\* and that selects no mood is rejected and persists nothing; a submission with one
\* of the four present, and otherwise valid, is not rejected for emptiness.
C12_EmptyRejected ==
    [][\A data \in FormData :
           FormSubmitted(data)
               => /\ Blank(data) => (/\ "__all__" \in response'.form_errors
                                     /\ entries' = entries)
                  /\ PresentNotEmpty(data)]_vars

\* C12 as amended: the empty submission is rejected and none of its fields is
\* persisted; entry_create and entry_edit write nothing, and entry_detail_modal
\* writes nothing but the blank entry of the day it creates when the user had none.
C12_EmptyRejectedAmended ==
    [][\A data \in FormData :
           FormSubmitted(data)
               => /\ Blank(data) => (/\ "__all__" \in response'.form_errors
                                     /\ entries' = entries \/ BlankDayEntryCreated)
                  /\ PresentNotEmpty(data)]_vars

\* an empty submission to the day's modal was rejected, and the user's entry of the
\* day is the blank one
C12_Witness ==
    /\ response.op = "entry_detail_modal"
    /\ response.status = 400
    /\ response.form_errors = {"__all__"}
    /\ \E e \in DOMAIN entries :
           entries[e] = [NewEntry EXCEPT !.user = Some(response.user),
                                         !.entry_date = Some(ParseDate(Day1))]

\* the text is not empty after trimming and has fewer than min characters
TooShort(text, min) == Strip(text) # <<>> /\ Len(Strip(text)) < min

\* the text fields of the submission that are too short
ShortFields(data) ==
    {f \in {"title"} : TooShort(data.title, 3)}
    \cup {f \in {"content"} : TooShort(data.content, ContentMinLen)}
    \cup {f \in {"gratitude_text"} : TooShort(data.gratitude_text, 5)}

\* C13: EntryForm rejects a submission with a non-empty title shorter than 3
\* characters, a non-empty content shorter than the content minimum or a non-empty
\* gratitude text shorter than 5 characters (after trimming), and a length error
\* names only such a field: an empty field never has one.
C13_MinimumLengths ==
    [][\A data \in FormData :
           FormSubmitted(data)
               => /\ ShortFields(data) # {}
                      => (/\ response'.errors
                          /\ response'.form_errors \cap ShortFields(data) # {}
                          /\ entries' = entries \/ BlankDayEntryCreated)
                  /\ response'.form_errors
                         \cap {"title", "content", "gratitude_text"}
                             \subseteq ShortFields(data)]_vars

\* a content of five characters, three of them after trimming, was rejected for
\* its length
C13_Witness ==
    /\ response.op \in {"entry_create", "entry_edit", "entry_detail_modal"}
    /\ response.errors
    /\ response.form_errors = {"content"}

\* the entries of table tbl that user u has on day Day1
OnDay(tbl, u) ==
    {e \in DOMAIN tbl :
        tbl[e].user = Some(u) /\ tbl[e].entry_date = Some(ParseDate(Day1))}

\* C14: a request to entry_detail_modal with a well-formed date leaves exactly one
\* entry for (current user, that date): a blank one is created when none existed,
\* an existing one is reused and a GET leaves its fields unchanged; the snapshot
\* returned describes that entry.
C14_OneEntryOfTheDay ==
    [][(response'.op = "entry_detail_modal" /\ response'.pk # None)
          => LET u == response'.user
                 before == OnDay(entries, u)
                 after == OnDay(entries', u)
             IN  /\ Cardinality(after) = 1
                 /\ response'.pk[1] \in after
                 /\ before # {} => after = before
                 /\ response'.method = "GET"
                        => /\ response'.shown = after
                           /\ \A e \in before : entries'[e] = entries[e]
                           /\ \A e \in after \ before :
                                  entries'[e] =
                                      [NewEntry EXCEPT !.user = Some(u),
                                                       !.entry_date = Some(ParseDate(Day1))]
                 /\ (response'.method = "POST" /\ ~response'.errors)
                        => response'.shown = after]_vars

\* the answer is a JSON error that is no server error, and no record changed
JsonErrorNoChange ==
    /\ response'.errors
    /\ response'.status \in {200, 400}
    /\ entries' = entries
    /\ categories' = categories
    /\ sticky_notes' = sticky_notes

\* the step is the answer of view op to a request of another method than supported
WrongMethod(op, supported) == response'.op = op /\ response'.method # supported

C15_Step ==
    /\ response'.op = "entry_detail_modal"
        => \A m \in Methods, data \in AjaxEntryData \cup {NoData} :
               entry_detail_modal(response'.user, m, BadDay, data) => JsonErrorNoChange
    /\ WrongMethod("category_ajax_create", "POST") => JsonErrorNoChange
    /\ WrongMethod("category_ajax_delete", "DELETE") => JsonErrorNoChange
    /\ WrongMethod("sticky_note_create", "POST") => JsonErrorNoChange
    /\ WrongMethod("sticky_note_update", "POST") => JsonErrorNoChange
    /\ WrongMethod("sticky_note_complete", "POST") => JsonErrorNoChange
    /\ WrongMethod("sticky_note_delete", "DELETE") => JsonErrorNoChange

\* C15: every AJAX endpoint answers a date string that is no date
\* (entry_detail_modal) or a method it does not support (category_ajax_create,
\* category_ajax_delete, sticky_note_create / update / complete / delete) with a
\* JSON error that is no server error, and changes no stored record.
C15_MalformedInput == [][C15_Step]_vars

\* a POST to sticky_note_delete that names a note of the user was answered with the
\* error, beside a category and an entry of the user
C15_Witness ==
    /\ response.op = "sticky_note_delete"
    /\ response.method = "POST"
    /\ response.error = "Invalid request method"
    /\ StickyNote_found(response.user, response.pk[1])
    /\ entries # <<>>
    /\ categories # <<>>

\* nothing but its name being taken could make the form reject the submission
OtherwiseValidCategory(data) == Len(Strip(data.name)) >= 2 /\ IsHexColor(Strip(data.color))

C16_Step ==
    (Answered("category_edit") /\ response'.status # 404)
        => LET u == response'.user
               pk == response'.pk[1]
           IN  \A data \in CategoryData :
                   category_edit(u, pk, "POST", data)
                       => /\ NameTaken(u, data.name, Some(pk))
                              => (response'.errors /\ categories' = categories)
                          /\ (OtherwiseValidCategory(data)
                                /\ ~NameTaken(u, data.name, Some(pk)))
                              => /\ response'.status = 302
                                 /\ categories'[pk].name = Strip(data.name)
                                 /\ categories'[pk].user = categories[pk].user

\* C16: editing a category checks the name, ignoring case, against the user's other
\* categories only: saving it under its own name or with the case changed succeeds,
\* renaming it to the name of another category of the user fails and changes
\* nothing, and a category of another user is no conflict.
C16_EditUniqueness == [][C16_Step]_vars

\* a category was saved as "work" while another user has a category of that name
\* up to case
C16_Witness ==
    /\ response.op = "category_edit"
    /\ response.status = 302
    /\ categories[response.pk[1]].name = Lower(Work)
    /\ \E c \in DOMAIN categories :
           /\ categories[c].user # Some(response.user)
           /\ Lower(categories[c].name) = Lower(Work)

\* the step is the answer to a delete request for a category of the requester
OwnerDeleted ==
    /\ \/ response'.op = "category_delete" /\ response'.method = "POST"
       \/ response'.op = "category_ajax_delete" /\ response'.method = "DELETE"
    /\ Category_found(response'.user, response'.pk[1])

C17_Step ==
    OwnerDeleted
        => LET pk == response'.pk[1]
           IN  /\ DOMAIN categories' = DOMAIN categories \ {pk}
               /\ \A c \in DOMAIN categories' : categories'[c] = categories[c]
               /\ DOMAIN entries' = DOMAIN entries
               /\ \A e \in DOMAIN entries :
                      /\ entries'[e].categories = entries[e].categories \ {pk}
                      /\ [entries'[e] EXCEPT !.categories = {}]
                             = [entries[e] EXCEPT !.categories = {}]

\* C17: a POST to category_delete or a DELETE to category_ajax_delete by the owner
\* removes the category at once, removes it from the category set of every entry,
\* and deletes or changes no entry otherwise and no other category.
C17_DeleteDetaches == [][C17_Step]_vars

\* a category was deleted, and an entry still carries another category
C17_Witness ==
    /\ response.op \in {"category_delete", "category_ajax_delete"}
    /\ response.status \in {200, 302}
    /\ response.pk[1] \notin DOMAIN categories
    /\ \E e \in DOMAIN entries : entries[e].categories # {}

\* the step is the answer of view op to a request that names a category of another
\* user
ForeignCategoryNamed(op) ==
    /\ response'.op = op
    /\ response'.pk[1] \in DOMAIN categories
    /\ categories[response'.pk[1]].user # Some(response'.user)

C18_Step ==
    /\ response'.op \in {"category_list", "category_ajax_list"}
        => \A c \in response'.cats :
               c \in DOMAIN categories /\ categories[c].user = Some(response'.user)
    /\ (\/ ForeignCategoryNamed("category_edit")
        \/ ForeignCategoryNamed("category_delete")
        \/ ForeignCategoryNamed("category_ajax_delete"))
        => /\ response'.status = 404 \/ response'.errors
           /\ response'.cats = {}
           /\ categories' = categories
           /\ entries' = entries

\* C18: category_list and category_ajax_list return only categories of the
\* requester, and an edit or delete request that names a category of another user
\* fails and leaves the categories unchanged.
C18_CategoriesScoped == [][C18_Step]_vars

\* a POST to category_edit named the category of another user and was answered 404
C18_Witness ==
    /\ response.op = "category_edit"
    /\ response.method = "POST"
    /\ response.status = 404
    /\ response.pk[1] \in DOMAIN categories
    /\ categories[response.pk[1]].user # Some(response.user)

\* the notes of table tbl that user u owns
NotesOf(tbl, u) == {n \in DOMAIN tbl : tbl[n].user = u}

\* the orders of the notes of one user are pairwise distinct
C19_Distinct ==
    \A n1, n2 \in DOMAIN sticky_notes :
        (n1 # n2 /\ sticky_notes[n1].user = sticky_notes[n2].user)
            => sticky_notes[n1].order # sticky_notes[n2].order

\* the step added note n of user u with the content, at the next position
Appended(u, n, content) ==
    /\ n \notin DOMAIN sticky_notes
    /\ DOMAIN sticky_notes' = DOMAIN sticky_notes \cup {n}
    /\ \A m \in DOMAIN sticky_notes : sticky_notes'[m] = sticky_notes[m]
    /\ sticky_notes'[n].user = u
    /\ sticky_notes'[n].content = content
    /\ IF NotesOf(sticky_notes, u) = {}
       THEN sticky_notes'[n].order = 0
       ELSE /\ \A m \in NotesOf(sticky_notes, u) :
                   sticky_notes[m].order < sticky_notes'[n].order
            /\ \E m \in NotesOf(sticky_notes, u) :
                   sticky_notes[m].order + 1 = sticky_notes'[n].order

C19_Step ==
    Answered("sticky_note_create")
        => \A raw \in NoteContents :
               sticky_note_create(response'.user, "POST", raw)
                   => IF Strip(raw) = <<>>
                      THEN response'.errors /\ sticky_notes' = sticky_notes
                      ELSE /\ ~response'.errors
                           /\ Appended(response'.user, response'.pk[1], Strip(raw))

\* C19: sticky_note_create with a content that is not empty appends a note at the
\* next position, order 0 for a user without notes and else one more than the
\* largest order of the user's notes, so that after any sequence of create, update,
\* complete and delete the orders of a user's notes are pairwise distinct; an empty
\* or blank content creates nothing.
C19_NextPosition == [][C19_Distinct /\ C19_Distinct' /\ C19_Step]_vars

\* a note was appended at order 2 to a user whose only other note has order 1: the
\* note of order 0 is gone
C19_Witness ==
    /\ response.op = "sticky_note_create"
    /\ ~response.errors
    /\ response.pk # None
    /\ response.pk[1] \in DOMAIN sticky_notes
    /\ sticky_notes[response.pk[1]].order = 2
    /\ {sticky_notes[n].order : n \in NotesOf(sticky_notes, response.user)} = {1, 2}

C20_Step ==
    (Answered("sticky_note_update")
       /\ StickyNote_found(response'.user, response'.pk[1]))
        => LET n == response'.pk[1]
           IN  \A raw \in NewNoteContents :
                   sticky_note_update(response'.user, n, "POST", raw)
                       => /\ ~response'.errors
                          /\ \A m \in DOMAIN sticky_notes \ {n} :
                                 m \in DOMAIN sticky_notes'
                                 /\ sticky_notes'[m] = sticky_notes[m]
                          /\ IF Strip(raw) # <<>>
                             THEN /\ DOMAIN sticky_notes' = DOMAIN sticky_notes
                                  /\ sticky_notes'[n].content = Strip(raw)
                                  /\ sticky_notes'[n].user = sticky_notes[n].user
                                  /\ sticky_notes'[n].order = sticky_notes[n].order
                             ELSE DOMAIN sticky_notes' = DOMAIN sticky_notes \ {n}

\* C20: sticky_note_update by the owner with a content that is not empty after
\* trimming replaces the note's content and keeps the note, its owner and its
\* order; with an empty or blank content it deletes the note.
C20_UpdateOrDelete == [][C20_Step]_vars

\* a note created as "Gym" now reads "Gymmy" and has kept its order 1
C20_Witness ==
    /\ response.op = "sticky_note_update"
    /\ ~response.errors
    /\ response.pk[1] \in DOMAIN sticky_notes
    /\ sticky_notes[response.pk[1]].content = Wins
    /\ sticky_notes[response.pk[1]].order = 1
    /\ sticky_notes[response.pk[1]].user = response.user

\* text is the title of the entry, or the end of its content
Carries(entry, text) ==
    \/ entry.title = text
    \/ /\ Len(entry.content) >= Len(text)
       /\ SubSeq(entry.content, Len(entry.content) - Len(text) + 1,
                 Len(entry.content)) = text

\* no user has two entries of table tbl on one day
OnePerDay(tbl) ==
    \A e1 \in DOMAIN tbl, e2 \in DOMAIN tbl :
        (/\ tbl[e1].user = tbl[e2].user
         /\ tbl[e1].entry_date # None
         /\ tbl[e1].entry_date = tbl[e2].entry_date) => e1 = e2

C21_Step ==
    (Answered("sticky_note_complete") /\ ~response'.errors)
        => LET n == response'.pk[1]
               u == response'.user
           IN  /\ n \in DOMAIN sticky_notes
               /\ sticky_notes[n].user = u
               /\ n \notin DOMAIN sticky_notes'
               /\ \A m \in DOMAIN sticky_notes \ {n} :
                      m \in DOMAIN sticky_notes' /\ sticky_notes'[m] = sticky_notes[m]
               /\ \E e \in DOMAIN entries' :
                      /\ entries'[e].user = Some(u)
                      /\ Carries(entries'[e], sticky_notes[n].content)
                      /\ e \in response'.shown
               /\ \A e \in DOMAIN entries :
                      e \in DOMAIN entries' /\ entries'[e].user = entries[e].user
               /\ OnePerDay(entries')

\* C21: a successful sticky_note_complete names a note of the requester, removes
\* that note and no other, and leaves an entry of the requester that carries the
\* note's content; no entry is lost or changes its owner, and no user has two
\* entries on one day afterwards.
C21_CompleteAsWin == [][C21_Step]_vars

\* two notes of one user were completed on the same day: the user's one entry of
\* the day has the first note's content as its title and the second's as its content
C21_Witness ==
    /\ response.op = "sticky_note_complete"
    /\ ~response.errors
    /\ \E e \in response.shown :
           /\ e \in DOMAIN entries
           /\ entries[e].user = Some(response.user)
           /\ entries[e].title # <<>>
           /\ entries[e].content # <<>>
    /\ \E e \in DOMAIN entries : entries[e].user # Some(response.user)

\* note n was created and is stored no more: it was completed or deleted (keys are
\* given in order and never again)
Gone(n) == n < nextNoteId /\ n \notin DOMAIN sticky_notes

\* the step is the answer to view op called with the method it supports
NoteAnswered(op, method) == response'.op = op /\ response'.method = method

C22_Step ==
    (/\ \/ NoteAnswered("sticky_note_update", "POST")
        \/ NoteAnswered("sticky_note_complete", "POST")
        \/ NoteAnswered("sticky_note_delete", "DELETE")
     /\ Gone(response'.pk[1]))
        => /\ response'.error = "Note not found"
           /\ sticky_notes' = sticky_notes
           /\ entries' = entries

\* C22: a sticky note that was completed or deleted (also by an update with an
\* empty content) is absent from storage in every later state, and every later
\* update, complete or delete that names its id is answered 'Note not found' and
\* changes no note and no entry.
C22_TerminalNotes == [][(\A n \in NoteIds : Gone(n) => Gone(n)') /\ C22_Step]_vars

\* a complete naming a note that is gone was answered 'Note not found', the
\* requester having a win of today and another note still stored
C22_Witness ==
    /\ response.op = "sticky_note_complete"
    /\ response.error = "Note not found"
    /\ Gone(response.pk[1])
    /\ OnToday(entries, response.user) # {}
    /\ NotesOf(sticky_notes, response.user) # {}

\* the step saves request q: one copy of it leaves pending
Saved(q) == CopiesIn(q, pending') < CopiesIn(q, pending)

C23_Step ==
    \A q \in BagToSet(pending) :
        Saved(q)
            => IF q.op = "entry_create"
               THEN IF DateTaken(q.user, q.data.entry_date, None)
                    THEN /\ response'.status = 500
                         /\ entries' = entries
                    ELSE /\ response'.status = 302
                         /\ Cardinality(DOMAIN entries') =
                                Cardinality(DOMAIN entries) + 1
               ELSE IF NameTaken(q.user, q.data.name, None)
                    THEN /\ response'.status = 500
                         /\ categories' = categories
                    ELSE /\ response'.status = 302
                         /\ Cardinality(DOMAIN categories') =
                                Cardinality(DOMAIN categories) + 1

\* C23: when the check (form.is_valid) and the write (form.save) of concurrent
\* create requests interleave, a write for a day on which the user has an entry
\* by then, or of a category name the user has by then up to case, is refused
\* with the store's constraint error (status 500) and stores nothing, the first
\* write is stored, and no state has two entries of a user on one day or two
\* categories of a user with names equal up to case.
C23_ConcurrentCreates == [][OnePerDay(entries') /\ C3_Distinct' /\ C23_Step]_vars

\* two requests of one user for "Work" and "work" both passed the check; the first
\* write is stored and the second was refused by the constraint
C23_Witness ==
    /\ response.op = "category_create"
    /\ response.status = 500
    /\ \E c \in DOMAIN categories : categories[c].user = Some(response.user)
    /\ \E e \in DOMAIN entries : entries[e].user = Some(response.user)

\* the cells of grid g that show day d, as pairs of week and column
CellsOf(g, d) ==
    {wc \in (DOMAIN g) \X (1..7) : wc[2] \in DOMAIN g[wc[1]] /\ g[wc[1]][wc[2]].day = d}

\* g is the grid of month m of year y for user u: weeks of seven cells, every
\* day of the month in one cell, in the column of its weekday counted from
\* Monday, marked when the user has an entry dated on it, and no other day
MonthGridOf(g, u, y, m) ==
    /\ \A w \in DOMAIN g : DOMAIN g[w] = 1..7
    /\ \A w \in DOMAIN g : \A c \in 1..7 : g[w][c].day \in 0..DaysInMonth(y, m)
    /\ \A d \in 1..DaysInMonth(y, m) :
           /\ Cardinality(CellsOf(g, d)) = 1
           /\ \A wc \in CellsOf(g, d) :
                  /\ wc[2] - 1 = Weekday(Ordinal(y, m, d))
                  /\ g[wc[1]][wc[2]].has_entry
                         <=> \E e \in DOMAIN entries :
                                 /\ entries[e].user = Some(u)
                                 /\ entries[e].entry_date = Some(Ordinal(y, m, d))

\* C24: a month grid that is answered, by weekly_dashboard for today's month or by
\* get_calendar_data for the month and year it names, shows every day of that
\* month exactly once, in weeks of seven cells that start on Monday, and marks a
\* day exactly when the user has an entry dated on it, December included.
C24_MonthGrid ==
    /\ (response.op = "weekly_dashboard" /\ response.status = 200)
        => /\ response.calendar_year = YearOf(today)
           /\ response.calendar_month + 1 = MonthOf(today)
           /\ MonthGridOf(response.calendar_weeks, response.user,
                          YearOf(today), MonthOf(today))
    /\ (response.op = "get_calendar_data" /\ response.status = 200)
        => MonthGridOf(response.calendar_weeks, response.user,
                       response.calendar_year, response.calendar_month)

\* the grid of December 2024 for a user with entries on 30 November, 31 December
\* and 1 January: the 31st is marked, the 16th, on which only the other user has
\* an entry, is not
C24_Witness ==
    /\ response.op = "get_calendar_data"
    /\ response.status = 200
    /\ response.calendar_year = 2024
    /\ response.calendar_month = 12
    /\ \E e \in DOMAIN entries :
           /\ entries[e].user = Some(response.user)
           /\ entries[e].entry_date = Some(Ordinal(2025, 1, 1))
    /\ \E e \in DOMAIN entries :
           /\ entries[e].user = Some(response.user)
           /\ entries[e].entry_date = Some(Ordinal(2024, 11, 30))
    /\ \E e \in DOMAIN entries :
           /\ entries[e].user # Some(response.user)
           /\ entries[e].entry_date = Some(Ordinal(2024, 12, 16))
    /\ \E w \in DOMAIN response.calendar_weeks :
           /\ response.calendar_weeks[w][2].day = 31
           /\ response.calendar_weeks[w][2].has_entry
    /\ \E w \in DOMAIN response.calendar_weeks :
           /\ response.calendar_weeks[w][1].day = 16
           /\ ~response.calendar_weeks[w][1].has_entry

\* no Entry row and no Category row is written, added or removed by the step
NothingStored == entries' = entries /\ categories' = categories

C25_Step ==
    LET u == response'.user
    IN  /\ (Answered("entry_edit") /\ Entry_found(u, response'.pk[1]))
            => LET pk == response'.pk[1]
               IN  \A data \in EditEntryData :
                       (/\ ~EntryForm_is_valid(entries, categories, u, pk, entries[pk],
                                               data)
                        /\ entry_edit(u, pk, "POST", data))
                           => response'.errors /\ NothingStored
        /\ (Answered("entry_detail_modal") /\ OnDay(entries, u) # {})
            => \A pk \in OnDay(entries, u), data \in EditEntryData :
                   (/\ ~EntryForm_is_valid(entries, categories, u, pk, entries[pk], data)
                    /\ entry_detail_modal(u, "POST", Day1, data))
                       => response'.errors /\ NothingStored
        /\ (Answered("category_edit") /\ Category_found(u, response'.pk[1]))
            => LET pk == response'.pk[1]
               IN  \A data \in EditCategoryData :
                       (/\ ~CategoryForm_is_valid(categories, u, Some(pk), data)
                        /\ category_edit(u, pk, "POST", data))
                           => response'.errors /\ NothingStored

\* C25: a POST to entry_edit, to category_edit or to entry_detail_modal for a day
\* on which the user has an entry, whose form fails validation, is answered with
\* the errors and leaves every Entry and Category row as it was.
C25_InvalidPostKeepsRecords == [][C25_Step]_vars

\* an edit with a mood that is no choice was rejected: the entry still has the
\* title and mood it was last saved with, and the user's categories are two
C25_Witness ==
    /\ response.op = "entry_edit"
    /\ response.method = "POST"
    /\ response.errors
    /\ response.form_errors = {"mood_rating"}
    /\ entries[response.pk[1]].title = Wins
    /\ entries[response.pk[1]].mood_rating = <<7>>
    /\ Cardinality({c \in DOMAIN categories :
                      categories[c].user = Some(response.user)}) = 2

\* the rows of tbl that the step keeps have the owner they had, and a row the
\* step adds to make new has the next key and the requesting user as its owner
OwnersKept(tbl, new, next) ==
    /\ \A k \in DOMAIN tbl \cap DOMAIN new : new[k].user = tbl[k].user
    /\ \A k \in DOMAIN new \ DOMAIN tbl :
           k = next /\ new[k].user = Some(response'.user)

\* C26: the owner of an entry or category is the user whose request created it,
\* and no later request changes it: every step keeps the owner of every row it
\* keeps, and gives a row it creates a key never used before and the requesting
\* user as owner.
C26_OwnerFixed ==
    [][/\ OwnersKept(entries, entries', nextEntryId)
       /\ OwnersKept(categories, categories', nextCategoryId)
       /\ nextEntryId' >= nextEntryId
       /\ nextCategoryId' >= nextCategoryId
       /\ \A k \in DOMAIN entries' : k < nextEntryId'
       /\ \A k \in DOMAIN categories' : k < nextCategoryId']_vars

\* u1 has edited an entry and renamed a category, still the owner of both, next
\* to an entry of u2
C26_Witness ==
    /\ response.op = "category_edit"
    /\ response.status = 302
    /\ categories[response.pk[1]].name = Home
    /\ categories[response.pk[1]].user = Some("u1")
    /\ \E e \in DOMAIN entries :
           entries[e].user = Some("u1") /\ entries[e].title = Wins
    /\ \E e \in DOMAIN entries : entries[e].user = Some("u2")

\* the keys of the rows that the step removes from a table
Removed(tbl, new) == DOMAIN tbl \ DOMAIN new

\* the step removes nothing but the row the request names, which is the requester's
OnlyNamed(gone, owner) ==
    /\ response'.pk # None
    /\ gone = {response'.pk[1]}
    /\ owner = response'.user

C27_Step ==
    LET goneE == Removed(entries, entries')
        goneC == Removed(categories, categories')
        goneN == Removed(sticky_notes, sticky_notes')
    IN  /\ goneE # {}
            => /\ response'.op = "entry_delete" /\ response'.method = "POST"
               /\ \A e \in goneE : OnlyNamed(goneE, entries[e].user[1])
        /\ goneC # {}
            => /\ \/ response'.op = "category_delete" /\ response'.method = "POST"
                  \/ response'.op = "category_ajax_delete"
                         /\ response'.method = "DELETE"
               /\ \A c \in goneC : OnlyNamed(goneC, categories[c].user[1])
        /\ goneN # {}
            => /\ response'.op \in {"sticky_note_update", "sticky_note_complete",
                                    "sticky_note_delete"}
               /\ \A n \in goneN : OnlyNamed(goneN, sticky_notes[n].user)
        /\ (response'.op \in {"entry_delete", "category_delete"}
              /\ response'.method = "GET")
            => /\ goneE = {} /\ goneC = {} /\ goneN = {}
               /\ response'.status \in {200, 404}
               /\ response'.status = 200
                      => response'.shown \cup response'.cats = {response'.pk[1]}

\* C27: a GET to entry_delete or category_delete shows the record to confirm and
\* removes nothing, and a step that removes an entry, a category or a sticky note
\* is a POST to entry_delete, a POST to category_delete or a DELETE to
\* category_ajax_delete, or a sticky-note update, complete or delete, that names
\* the one record it removes, a record of the requester.
C27_DeletedOnRequest == [][C27_Step]_vars

\* a GET to entry_delete by its owner showed the entry, which is still stored,
\* after the category and the sticky note were deleted
C27_Witness ==
    /\ response.op = "entry_delete"
    /\ response.method = "GET"
    /\ response.status = 200
    /\ response.pk[1] \in DOMAIN entries
    /\ nextCategoryId > 1 /\ DOMAIN categories = {}
    /\ nextNoteId > 1 /\ DOMAIN sticky_notes = {}

====
